---- MODULE Spec2Model ----
(***************************************************************************)
(* The Source adapters of alice-lg: the polling adapter for OpenBGPD's     *)
(* bgplgd (pkg/sources/openbgpd/bgplgd_source.go) and the streaming        *)
(* adapter for GoBGP (pkg/sources/gobgp/source.go), with the response      *)
(* caches they own.  One Source instance is modelled; which adapter it is  *)
(* is fixed at construction.                                               *)
(***************************************************************************)
EXTENDS Integers, Sequences, FiniteSets, TLC

VARIABLES
    adapter,                \* "openbgpd" | "gobgp": the Source constructed
    cacheTTL,               \* cfg.CacheTTL of the polling adapter
    now,                    \* the wall clock, time.Now()
    calls,                  \* Source calls started so far
    neighborsCache,         \* both adapters
    neighborsSummaryCache,  \* BgplgdSource only
    routesCache,            \* BgplgdSource only
    routesReceivedCache,    \* both adapters
    routesFilteredCache,    \* both adapters
    routesRequiredCache,    \* GoBGP only
    routesNotExportedCache, \* GoBGP only
    stream,                 \* the GoBGP ListPeer call in flight
    last,                   \* what the last finished call handed to its caller
    held,                   \* the response the latest backend fetch handed out
    tasks,                  \* the calls in flight when callers run concurrently
    accessed                \* the Get hits and Sets of routesReceivedCache so far

vars == <<adapter, cacheTTL, now, calls, neighborsCache, neighborsSummaryCache,
          routesCache, routesReceivedCache, routesFilteredCache,
          routesRequiredCache, routesNotExportedCache, stream, last, held,
          tasks, accessed>>

caches == <<neighborsCache, neighborsSummaryCache, routesCache,
            routesReceivedCache, routesFilteredCache, routesRequiredCache,
            routesNotExportedCache>>

(***************************************************************************)
(* Bounds of the model.                                                    *)
(***************************************************************************)
MaxTime == 3
MaxCalls == 2
MaxPeers == 2
CacheTTL == 2
RoutesCacheSize == 1

\* routesCacheMaxSize of NewGoBGP
routesCacheMaxSize == 128

cfgID == "rs1"
NeighborIDs == {"n1", "n2"}
RejectCommunities == {"reject"}

(***************************************************************************)
(* Go values: a pointer is nil or holds a value; a slice is nil or a       *)
(* (possibly empty) sequence.                                              *)
(***************************************************************************)
Nil == <<>>
Ptr(v) == <<v>>
Deref(p) == p[1]

NilRoutes == [isNil |-> TRUE, items |-> <<>>]
MakeRoutes(s) == [isNil |-> FALSE, items |-> s]
EmptyRoutes == MakeRoutes(<<>>)

Range(s) == {s[i] : i \in DOMAIN s}

(***************************************************************************)
(* What the backends can answer.                                           *)
(***************************************************************************)
r1 == [Network |-> "10.0.1.0/24", LargeCommunities |-> {"keep"}]
r2 == [Network |-> "10.0.2.0/24", LargeCommunities |-> {"keep", "reject"}]
RIBs == {<<>>, <<r1, r2>>}

DecodedNeighbor(id) == [ID |-> id, RouteServerID |-> "", RoutesFiltered |-> 0]
NeighborLists == {<<DecodedNeighbor("n1")>>,
                  <<DecodedNeighbor("n1"), DecodedNeighbor("n2")>>}

\* http.DefaultClient.Do fails, the body does not decode, or a body arrives
OK(body) == [status |-> "ok", body |-> body]
HTTPError == [status |-> "httpError", body |-> <<>>]
DecodeError == [status |-> "decodeError", body |-> <<>>]
RIBOutcomes == {HTTPError, DecodeError} \cup {OK(b) : b \in RIBs}
NeighborsOutcomes == {HTTPError, DecodeError} \cup {OK(b) : b \in NeighborLists}
StatusBodies == {<<>>, <<[ID |-> "n1", State |-> "up"]>>}
StatusOutcomes == {HTTPError, DecodeError} \cup {OK(b) : b \in StatusBodies}

Request(path, neighbor) == [path |-> path, neighbor |-> neighbor]

(***************************************************************************)
(* api.Meta and its expiry.                                                *)
(***************************************************************************)
\* makeResponseMeta leaving cfg.CacheTTL out of the expiry time
makeResponseMetaWithoutTTL(t, ttl) ==
    [CachedAt |-> t, ResultFromCache |-> FALSE, TTL |-> t]

makeResponseMeta(t, ttl) ==
    [CachedAt |-> t, ResultFromCache |-> FALSE, TTL |-> t + ttl]

\* An entry is expired once insertedAt + ttl <= now
Expired(resp, t) == resp.Meta.TTL <= t

(***************************************************************************)
(* caches.NeighborsCache: one slot.                                        *)
(***************************************************************************)
NewNeighborsCache(disabled) == [disabled |-> disabled, response |-> Nil]

NeighborsCacheGet(c, t) ==
    IF c.disabled \/ c.response = Nil THEN Nil
    ELSE IF Expired(Deref(c.response), t) THEN Nil
    ELSE c.response

NeighborsCacheSet(c, resp) ==
    IF c.disabled THEN c ELSE [c EXCEPT !.response = Ptr(resp)]

NeighborsCacheExpire(c, t) ==
    IF c.response # Nil /\ Expired(Deref(c.response), t)
    THEN [cache |-> [c EXCEPT !.response = Nil], count |-> 1]
    ELSE [cache |-> c, count |-> 0]

(***************************************************************************)
(* caches.RoutesCache: keyed by neighbor ID, at most `size` entries, the   *)
(* least recently used one evicted.  lru lists the keys held, the least    *)
(* recently used first.                                                    *)
(***************************************************************************)
NewRoutesCache(disabled, size) ==
    [disabled |-> disabled, size |-> size,
     responses |-> [k \in NeighborIDs |-> Nil], lru |-> <<>>]

\* The same cache over the neighbor IDs in `keys`
NewRoutesCacheOf(keys, disabled, size) ==
    [NewRoutesCache(disabled, size) EXCEPT !.responses = [k \in keys |-> Nil]]

Without(s, k) == SelectSeq(s, LAMBDA x : x # k)

RoutesCacheGet(c, key, t) ==
    IF c.disabled \/ key \notin DOMAIN c.responses THEN Nil
    ELSE IF c.responses[key] = Nil THEN Nil
    ELSE IF Expired(Deref(c.responses[key]), t) THEN Nil
    ELSE c.responses[key]

\* The cache after Get(key): a hit makes key the most recently used
RoutesCacheTouch(c, key, t) ==
    IF RoutesCacheGet(c, key, t) = Nil THEN c
    ELSE [c EXCEPT !.lru = Append(Without(@, key), key)]

RoutesCacheSet(c, key, resp) ==
    IF c.disabled THEN c
    ELSE IF c.responses[key] = Nil /\ Len(c.lru) >= c.size /\ Len(c.lru) > 0
    THEN [c EXCEPT !.responses = [@ EXCEPT ![c.lru[1]] = Nil, ![key] = Ptr(resp)],
                   !.lru = Append(Tail(@), key)]
    ELSE [c EXCEPT !.responses[key] = Ptr(resp),
                   !.lru = Append(Without(@, key), key)]

RoutesCacheExpired(c, t) ==
    {k \in DOMAIN c.responses :
        c.responses[k] # Nil /\ Expired(Deref(c.responses[k]), t)}

RoutesCacheExpire(c, t) ==
    LET gone == RoutesCacheExpired(c, t)
    IN [cache |-> [c EXCEPT !.responses = [k \in DOMAIN c.responses |->
                                             IF k \in gone THEN Nil ELSE @[k]],
                            !.lru = SelectSeq(@, LAMBDA k : k \notin gone)],
        count |-> Cardinality(gone)]

(***************************************************************************)
(* The route classifier: a route is filtered iff one of its large          *)
(* communities is a reject community, and received otherwise.              *)
(***************************************************************************)
IsRejected(reject, route) == route.LargeCommunities \cap reject # {}

filterReceivedRoutes(reject, routes) ==
    MakeRoutes(SelectSeq(routes, LAMBDA r : ~IsRejected(reject, r)))

filterRejectedRoutes(reject, routes) ==
    MakeRoutes(SelectSeq(routes, LAMBDA r : IsRejected(reject, r)))

(***************************************************************************)
(* BgplgdSource, the polling adapter.  Each method is an operator from the *)
(* caches it uses, its arguments, the backend's answers and the clock to   *)
(* the caches afterwards and what the caller gets.                         *)
(***************************************************************************)
\* NewBgplgdSource leaving the caches enabled whatever cfg.CacheTTL is
NewBgplgdSourceCaching(ttl) ==
    [neighborsCache |-> NewNeighborsCache(FALSE),
     neighborsSummaryCache |-> NewNeighborsCache(FALSE),
     routesCache |-> NewRoutesCache(FALSE, RoutesCacheSize),
     routesReceivedCache |-> NewRoutesCache(FALSE, RoutesCacheSize),
     routesFilteredCache |-> NewRoutesCache(FALSE, RoutesCacheSize)]

NewBgplgdSource(ttl) ==
    LET cacheDisabled == ttl = 0
    IN [neighborsCache |-> NewNeighborsCache(cacheDisabled),
        neighborsSummaryCache |-> NewNeighborsCache(cacheDisabled),
        routesCache |-> NewRoutesCache(cacheDisabled, RoutesCacheSize),
        routesReceivedCache |-> NewRoutesCache(cacheDisabled, RoutesCacheSize),
        routesFilteredCache |-> NewRoutesCache(cacheDisabled, RoutesCacheSize)]

\* response.Meta.ResultFromCache = true
MarkFromCacheSkipped(resp) == resp

MarkFromCache(resp) == [resp EXCEPT !.Meta.ResultFromCache = TRUE]

\* A hit of a NeighborsCache: the flag is set on the object the cache holds
NeighborsCacheHit(c) == [c EXCEPT !.response = Ptr(MarkFromCache(Deref(@)))]

\* A hit of a RoutesCache: Get has touched the key, the flag is set on the
\* object the cache holds
RoutesCacheHit(c, key, t) ==
    [RoutesCacheTouch(c, key, t) EXCEPT
        !.responses[key] = Ptr(MarkFromCache(Deref(@)))]

Returned(cache, response, requests) ==
    [cache |-> cache, response |-> response, err |-> FALSE,
     requests |-> requests, failed |-> 0]

Failed(cache, requests) ==
    [cache |-> cache, response |-> Nil, err |-> TRUE,
     requests |-> requests, failed |-> 1]

ShowNeighborsRequest == Request("/neighbors", "")
ShowNeighborsSummaryRequest == Request("/summary", "")
ShowNeighborRIBRequest(neighborID) == Request("/rib?neighbor=%s", neighborID)
ShowRIBRequest == Request("/rib", "")

Status(t, ttl) ==
    [Meta |-> makeResponseMeta(t, ttl),
     Status |-> [Version |-> "openbgpd", Message |-> "openbgpd up and running"]]

\* Routes importing every decoded route, the rejected ones too
RoutesAllImported(rc, neighborID, out, t, ttl) ==
    LET response == RoutesCacheGet(rc, neighborID, t)
        req == <<ShowNeighborRIBRequest(neighborID)>>
    IN IF response # Nil
       THEN Returned(RoutesCacheHit(rc, neighborID, t),
                     Ptr(MarkFromCache(Deref(response))), <<>>)
       ELSE IF out.status # "ok" THEN Failed(rc, req)
       ELSE LET fresh == [Meta |-> makeResponseMeta(t, ttl),
                          Imported |-> MakeRoutes(out.body),
                          NotExported |-> EmptyRoutes,
                          Filtered |-> filterRejectedRoutes(RejectCommunities, out.body)]
            IN Returned(RoutesCacheSet(rc, neighborID, fresh), Ptr(fresh), req)

Routes(rc, neighborID, out, t, ttl) ==
    LET response == RoutesCacheGet(rc, neighborID, t)
        req == <<ShowNeighborRIBRequest(neighborID)>>
    IN IF response # Nil
       THEN Returned(RoutesCacheHit(rc, neighborID, t),
                     Ptr(MarkFromCache(Deref(response))), <<>>)
       ELSE IF out.status # "ok" THEN Failed(rc, req)
       ELSE LET fresh == [Meta |-> makeResponseMeta(t, ttl),
                          Imported |-> filterReceivedRoutes(RejectCommunities, out.body),
                          NotExported |-> EmptyRoutes,
                          Filtered |-> filterRejectedRoutes(RejectCommunities, out.body)]
            IN Returned(RoutesCacheSet(rc, neighborID, fresh), Ptr(fresh), req)

\* RoutesReceived asking the backend once more when the request failed
RoutesReceivedRetrying(rrc, neighborID, out, t, ttl) ==
    LET response == RoutesCacheGet(rrc, neighborID, t)
        req == <<ShowNeighborRIBRequest(neighborID)>>
    IN IF response # Nil
       THEN Returned(RoutesCacheHit(rrc, neighborID, t),
                     Ptr(MarkFromCache(Deref(response))), <<>>)
       ELSE IF out.status # "ok" THEN Failed(rrc, req \o req)
       ELSE LET fresh == [Meta |-> makeResponseMeta(t, ttl),
                          Imported |-> filterReceivedRoutes(RejectCommunities, out.body),
                          NotExported |-> EmptyRoutes,
                          Filtered |-> EmptyRoutes]
            IN Returned(RoutesCacheSet(rrc, neighborID, fresh), Ptr(fresh), req)

\* RoutesReceived reading the entry past Get, which leaves its recency as
\* it was
RoutesReceivedPeeking(rrc, neighborID, out, t, ttl) ==
    LET response == RoutesCacheGet(rrc, neighborID, t)
        req == <<ShowNeighborRIBRequest(neighborID)>>
    IN IF response # Nil
       THEN Returned([rrc EXCEPT !.responses[neighborID] =
                                    Ptr(MarkFromCache(Deref(response)))],
                     Ptr(MarkFromCache(Deref(response))), <<>>)
       ELSE IF out.status # "ok" THEN Failed(rrc, req)
       ELSE LET fresh == [Meta |-> makeResponseMeta(t, ttl),
                          Imported |-> filterReceivedRoutes(RejectCommunities, out.body),
                          NotExported |-> EmptyRoutes,
                          Filtered |-> EmptyRoutes]
            IN Returned(RoutesCacheSet(rrc, neighborID, fresh), Ptr(fresh), req)

RoutesReceived(rrc, neighborID, out, t, ttl) ==
    LET response == RoutesCacheGet(rrc, neighborID, t)
        req == <<ShowNeighborRIBRequest(neighborID)>>
    IN IF response # Nil
       THEN Returned(RoutesCacheHit(rrc, neighborID, t),
                     Ptr(MarkFromCache(Deref(response))), <<>>)
       ELSE IF out.status # "ok" THEN Failed(rrc, req)
       ELSE LET fresh == [Meta |-> makeResponseMeta(t, ttl),
                          Imported |-> filterReceivedRoutes(RejectCommunities, out.body),
                          NotExported |-> EmptyRoutes,
                          Filtered |-> EmptyRoutes]
            IN Returned(RoutesCacheSet(rrc, neighborID, fresh), Ptr(fresh), req)

\* RoutesFiltered storing an empty response when the backend call failed
RoutesFilteredMemoizesFailure(rfc, neighborID, out, t, ttl) ==
    LET response == RoutesCacheGet(rfc, neighborID, t)
        req == <<ShowNeighborRIBRequest(neighborID)>>
        body == IF out.status = "ok" THEN out.body ELSE <<>>
        fresh == [Meta |-> makeResponseMeta(t, ttl),
                  Imported |-> EmptyRoutes,
                  NotExported |-> EmptyRoutes,
                  Filtered |-> filterRejectedRoutes(RejectCommunities, body)]
    IN IF response # Nil
       THEN Returned(RoutesCacheHit(rfc, neighborID, t),
                     Ptr(MarkFromCache(Deref(response))), <<>>)
       ELSE IF out.status # "ok"
       THEN Failed(RoutesCacheSet(rfc, neighborID, fresh), req)
       ELSE Returned(RoutesCacheSet(rfc, neighborID, fresh), Ptr(fresh), req)

RoutesFiltered(rfc, neighborID, out, t, ttl) ==
    LET response == RoutesCacheGet(rfc, neighborID, t)
        req == <<ShowNeighborRIBRequest(neighborID)>>
    IN IF response # Nil
       THEN Returned(RoutesCacheHit(rfc, neighborID, t),
                     Ptr(MarkFromCache(Deref(response))), <<>>)
       ELSE IF out.status # "ok" THEN Failed(rfc, req)
       ELSE LET fresh == [Meta |-> makeResponseMeta(t, ttl),
                          Imported |-> EmptyRoutes,
                          NotExported |-> EmptyRoutes,
                          Filtered |-> filterRejectedRoutes(RejectCommunities, out.body)]
            IN Returned(RoutesCacheSet(rfc, neighborID, fresh), Ptr(fresh), req)

RoutesNotExported(t, ttl) ==
    [Meta |-> makeResponseMeta(t, ttl), Imported |-> EmptyRoutes,
     NotExported |-> EmptyRoutes, Filtered |-> EmptyRoutes]

\* AllRoutes flagging its response as served from a cache
AllRoutesMarked(out, t, ttl) ==
    IF out.status # "ok" THEN Failed(Nil, <<ShowRIBRequest>>)
    ELSE Returned(Nil,
                  Ptr(MarkFromCache(
                      [Meta |-> makeResponseMeta(t, ttl),
                       Imported |-> filterReceivedRoutes(RejectCommunities, out.body),
                       NotExported |-> EmptyRoutes,
                       Filtered |-> filterRejectedRoutes(RejectCommunities, out.body)])),
                  <<ShowRIBRequest>>)

AllRoutes(out, t, ttl) ==
    IF out.status # "ok" THEN Failed(Nil, <<ShowRIBRequest>>)
    ELSE Returned(Nil,
                  Ptr([Meta |-> makeResponseMeta(t, ttl),
                       Imported |-> filterReceivedRoutes(RejectCommunities, out.body),
                       NotExported |-> EmptyRoutes,
                       Filtered |-> filterRejectedRoutes(RejectCommunities, out.body)]),
                  <<ShowRIBRequest>>)

NeighborsStatus(out, t, ttl) ==
    IF out.status # "ok" THEN Failed(Nil, <<ShowNeighborsSummaryRequest>>)
    ELSE Returned(Nil,
                  Ptr([Meta |-> makeResponseMeta(t, ttl), Neighbors |-> out.body]),
                  <<ShowNeighborsSummaryRequest>>)

\* The loop of Neighbors ranging over copies of the neighbors: the stamps are
\* lost
RECURSIVE NeighborsLoopByValue(_, _, _, _, _, _)
NeighborsLoopByValue(nb, i, rfc, ribOut, t, ttl) ==
    IF i > Len(nb)
    THEN [nb |-> nb, cache |-> rfc, err |-> FALSE, requests |-> <<>>, failed |-> 0]
    ELSE LET rejectedRes == RoutesFiltered(rfc, nb[i].ID, ribOut[nb[i].ID], t, ttl)
         IN IF rejectedRes.err
            THEN [nb |-> nb, cache |-> rejectedRes.cache, err |-> TRUE,
                  requests |-> rejectedRes.requests, failed |-> 1]
            ELSE LET rest == NeighborsLoopByValue(nb, i + 1, rejectedRes.cache,
                                                  ribOut, t, ttl)
                 IN [rest EXCEPT !.requests = rejectedRes.requests \o @]

\* The loop of Neighbors over the decoded list nb, from its i-th element on:
\* ribOut[id] is the backend's answer should RoutesFiltered(id) ask it.
RECURSIVE NeighborsLoop(_, _, _, _, _, _)
NeighborsLoop(nb, i, rfc, ribOut, t, ttl) ==
    IF i > Len(nb)
    THEN [nb |-> nb, cache |-> rfc, err |-> FALSE, requests |-> <<>>, failed |-> 0]
    ELSE LET n == [nb[i] EXCEPT !.RouteServerID = cfgID]
             rejectedRes == RoutesFiltered(rfc, n.ID, ribOut[n.ID], t, ttl)
         IN IF rejectedRes.err
            THEN [nb |-> nb, cache |-> rejectedRes.cache, err |-> TRUE,
                  requests |-> rejectedRes.requests, failed |-> 1]
            ELSE LET rejectCount == Len(Deref(rejectedRes.response).Filtered.items)
                     rest == NeighborsLoop(
                                 [nb EXCEPT ![i] = [n EXCEPT !.RoutesFiltered = rejectCount]],
                                 i + 1, rejectedRes.cache, ribOut, t, ttl)
                 IN [rest EXCEPT !.requests = rejectedRes.requests \o @]

Neighbors(nc, rfc, out, ribOut, t, ttl) ==
    LET response == NeighborsCacheGet(nc, t)
        req == <<ShowNeighborsRequest>>
    IN IF response # Nil
       THEN [neighborsCache |-> NeighborsCacheHit(nc), routesFilteredCache |-> rfc,
             response |-> Ptr(MarkFromCache(Deref(response))), err |-> FALSE,
             requests |-> <<>>, failed |-> 0]
       ELSE IF out.status # "ok"
       THEN [neighborsCache |-> nc, routesFilteredCache |-> rfc, response |-> Nil,
             err |-> TRUE, requests |-> req, failed |-> 1]
       ELSE LET loop == NeighborsLoop(out.body, 1, rfc, ribOut, t, ttl)
                fresh == [Meta |-> makeResponseMeta(t, ttl), Neighbors |-> loop.nb]
            IN IF loop.err
               THEN [neighborsCache |-> nc, routesFilteredCache |-> loop.cache,
                     response |-> Nil, err |-> TRUE,
                     requests |-> req \o loop.requests, failed |-> 1]
               ELSE [neighborsCache |-> NeighborsCacheSet(nc, fresh),
                     routesFilteredCache |-> loop.cache,
                     response |-> Ptr(fresh), err |-> FALSE,
                     requests |-> req \o loop.requests, failed |-> 0]

\* NeighborsSummary asking the backend a second time before it decodes
NeighborsSummaryAsksTwice(nsc, out, t, ttl) ==
    LET response == NeighborsCacheGet(nsc, t)
        req == <<ShowNeighborsRequest, ShowNeighborsRequest>>
    IN IF response # Nil
       THEN Returned(NeighborsCacheHit(nsc), Ptr(MarkFromCache(Deref(response))), <<>>)
       ELSE IF out.status # "ok" THEN Failed(nsc, req)
       ELSE LET nb == [i \in DOMAIN out.body |->
                         [out.body[i] EXCEPT !.RouteServerID = cfgID]]
                fresh == [Meta |-> makeResponseMeta(t, ttl), Neighbors |-> nb]
            IN Returned(NeighborsCacheSet(nsc, fresh), Ptr(fresh), req)

NeighborsSummary(nsc, out, t, ttl) ==
    LET response == NeighborsCacheGet(nsc, t)
        req == <<ShowNeighborsRequest>>
    IN IF response # Nil
       THEN Returned(NeighborsCacheHit(nsc), Ptr(MarkFromCache(Deref(response))), <<>>)
       ELSE IF out.status # "ok" THEN Failed(nsc, req)
       ELSE LET nb == [i \in DOMAIN out.body |->
                         [out.body[i] EXCEPT !.RouteServerID = cfgID]]
                fresh == [Meta |-> makeResponseMeta(t, ttl), Neighbors |-> nb]
            IN Returned(NeighborsCacheSet(nsc, fresh), Ptr(fresh), req)

BgplgdExpireCaches(rrc, t) == RoutesCacheExpire(rrc, t)

(***************************************************************************)
(* GoBGP, the streaming adapter.                                           *)
(***************************************************************************)
NewGoBGP ==
    LET neighborsCacheDisable == FALSE
        routesCacheDisabled == FALSE
    IN [neighborsCache |-> NewNeighborsCache(neighborsCacheDisable),
        routesRequiredCache |-> NewRoutesCache(routesCacheDisabled, routesCacheMaxSize),
        routesReceivedCache |-> NewRoutesCache(routesCacheDisabled, routesCacheMaxSize),
        routesFilteredCache |-> NewRoutesCache(routesCacheDisabled, routesCacheMaxSize),
        routesNotExportedCache |-> NewRoutesCache(routesCacheDisabled, routesCacheMaxSize)]

\* What the backend can stream: peers and the paths of a peer's table
afiA == [Received |-> 2, Accepted |-> 1, Advertised |-> 1]
afiB == [Received |-> 1, Accepted |-> 1, Advertised |-> 0]
PeerIdents == {[Address |-> "a1", PeerAs |-> 1], [Address |-> "a2", PeerAs |-> 2]}
SessionStates == {"ESTABLISHED", "ACTIVE", "IDLE"}
\* A peer lists one address family or two; its uptime is set once the
\* session is established
Peers == {[Address |-> i.Address, PeerAs |-> i.PeerAs, SessionState |-> st,
           AfiSafis |-> IF i.PeerAs = 1 THEN <<afiA>> ELSE <<afiA, afiB>>,
           Uptime |-> IF st = "ESTABLISHED" THEN Ptr(0) ELSE Nil] :
              i \in PeerIdents, st \in SessionStates}

\* fmt.Sprintf("%v_%v", asn, address) on the peers of the model
PeerHash(peer) ==
    CASE peer.PeerAs = 1 /\ peer.Address = "a1" -> "1_a1"
      [] peer.PeerAs = 2 /\ peer.Address = "a2" -> "2_a2"
      [] peer.PeerAs = 1 /\ peer.Address = "a2" -> "1_a2"
      [] peer.PeerAs = 2 /\ peer.Address = "a1" -> "2_a1"

peerA == [Address |-> "a1", PeerAs |-> 1, SessionState |-> "ESTABLISHED",
          AfiSafis |-> <<afiA>>, Uptime |-> Ptr(0)]
peerB == [Address |-> "a2", PeerAs |-> 2, SessionState |-> "ACTIVE",
          AfiSafis |-> <<afiA, afiB>>, Uptime |-> Nil]
PeerLists == {<<peerA>>, <<peerA, peerB>>}
GobgpIDs == {"1_a1", "2_a2", "unknown"}

GRPCError == [status |-> "error", body |-> <<>>]
PeersOutcomes == {GRPCError} \cup {OK(ps) : ps \in PeerLists}
Paths == <<[Network |-> "10.0.1.0/24", Filtered |-> FALSE],
           [Network |-> "10.0.2.0/24", Filtered |-> TRUE]>>
DumpOutcomes == {GRPCError, OK(<<>>), OK(Paths)}

NewRoutesResponse ==
    [Imported |-> EmptyRoutes, Filtered |-> EmptyRoutes, NotExported |-> EmptyRoutes]

GetNeighbors(peersOut) ==
    IF peersOut.status # "ok" THEN [peers |-> <<>>, err |-> TRUE]
    ELSE [peers |-> peersOut.body, err |-> FALSE]

lookupNeighbor(neighborID, peersOut) ==
    LET got == GetNeighbors(peersOut)
        found == {i \in DOMAIN got.peers :
                    neighborID = "" \/ PeerHash(got.peers[i]) = neighborID}
    IN IF got.err \/ found = {} THEN [neigh |-> Nil, err |-> TRUE]
       ELSE [neigh |-> Ptr(got.peers[CHOOSE i \in found : \A j \in found : i <= j]),
             err |-> FALSE]

\* GetRoutes appends the peer's paths to rr: the filtered ones to Filtered,
\* the others to Imported
GetRoutes(peer, rr, dumpOut) ==
    IF dumpOut.status # "ok" THEN [rr |-> rr, err |-> TRUE]
    ELSE LET route(p) == [Network |-> p.Network, NeighborID |-> PeerHash(peer)]
             routes == [i \in DOMAIN dumpOut.body |-> route(dumpOut.body[i])]
             flt == SelectSeq(dumpOut.body, LAMBDA p : p.Filtered)
             imp == SelectSeq(dumpOut.body, LAMBDA p : ~p.Filtered)
         IN [rr |-> [rr EXCEPT
                      !.Filtered = MakeRoutes(@.items \o [i \in DOMAIN flt |-> route(flt[i])]),
                      !.Imported = MakeRoutes(@.items \o [i \in DOMAIN imp |-> route(imp[i])])],
             err |-> FALSE]

GReturned(response) == [outcome |-> "ok", response |-> response, failed |-> 0]
GError == [outcome |-> "error", response |-> Nil, failed |-> 1]
GPanic == [outcome |-> "panic", response |-> Nil, failed |-> 1]

GobgpStatus(ok) ==
    IF ~ok THEN GError
    ELSE GReturned(Ptr([Status |-> [RouterID |-> "192.0.2.1", Backend |-> "gobgp"]]))

getRoutes(neighborID, peersOut, dumpOut) ==
    LET l == lookupNeighbor(neighborID, peersOut)
    IN IF l.err THEN [routes |-> Nil, err |-> TRUE]
       ELSE LET g == GetRoutes(Deref(l.neigh), NewRoutesResponse, dumpOut)
            IN IF g.err THEN [routes |-> Nil, err |-> TRUE]
               ELSE [routes |-> Ptr(g.rr), err |-> FALSE]

GobgpRoutes(neighborID, peersOut, dumpOut) ==
    LET l == lookupNeighbor(neighborID, peersOut)
    IN IF l.err THEN GError
       ELSE LET g == GetRoutes(Deref(l.neigh), NewRoutesResponse, dumpOut)
            IN IF g.err THEN GError ELSE GReturned(Ptr(g.rr))

GobgpRoutesReceived(neighborID, peersOut, dumpOut) ==
    LET l == lookupNeighbor(neighborID, peersOut)
    IN IF l.err THEN GError
       ELSE LET g == GetRoutes(Deref(l.neigh), NewRoutesResponse, dumpOut)
            IN IF g.err THEN GError
               ELSE GReturned(Ptr([g.rr EXCEPT !.Filtered = NilRoutes]))

\* routes.Imported = nil is executed whether or not getRoutes failed
GobgpRoutesFiltered(neighborID, peersOut, dumpOut) ==
    LET g == getRoutes(neighborID, peersOut, dumpOut)
    IN IF g.routes = Nil THEN GPanic
       ELSE [outcome |-> IF g.err THEN "error" ELSE "ok",
             response |-> Ptr([Deref(g.routes) EXCEPT !.Imported = NilRoutes]),
             failed |-> IF g.err THEN 1 ELSE 0]

GobgpRoutesNotExported(neighborID, peersOut, dumpOut) ==
    LET l == lookupNeighbor(neighborID, peersOut)
    IN IF l.err THEN GError
       ELSE LET g == GetRoutes(Deref(l.neigh), NewRoutesResponse, dumpOut)
            IN IF g.err THEN GError
               ELSE GReturned(Ptr([g.rr EXCEPT !.NotExported = g.rr.Filtered]))

GobgpLookupPrefix == GError

\* The loop of AllRoutes over peers, from the i-th on: a failed dump is logged
\* and the loop goes on.  dumps[id] is the backend's answer for peer id.
RECURSIVE AllRoutesLoop(_, _, _, _)
AllRoutesLoop(peers, i, routes, dumps) ==
    IF i > Len(peers) THEN [routes |-> routes, failed |-> 0]
    ELSE LET g == GetRoutes(peers[i], routes, dumps[PeerHash(peers[i])])
             rest == AllRoutesLoop(peers, i + 1, g.rr, dumps)
         IN [rest EXCEPT !.failed = @ + (IF g.err THEN 1 ELSE 0)]

GobgpAllRoutes(peersOut, dumps) ==
    LET got == GetNeighbors(peersOut)
    IN IF got.err THEN GError
       ELSE LET loop == AllRoutesLoop(got.peers, 1, NewRoutesResponse, dumps)
            IN [outcome |-> "ok", response |-> Ptr(loop.routes), failed |-> loop.failed]

GobgpExpireCaches(required, notExported, t) ==
    LET a == RoutesCacheExpire(required, t)
        b == RoutesCacheExpire(notExported, t)
    IN [routesRequiredCache |-> a.cache, routesNotExportedCache |-> b.cache,
        count |-> a.count + b.count]

\* switch _resp.Peer.State.SessionState
SessionStateSwapped(state) == IF state = "ESTABLISHED" THEN "down" ELSE "up"

SessionStateName(state) == IF state = "ESTABLISHED" THEN "up" ELSE "down"

Since(uptime, t) == IF uptime # Nil THEN t - Deref(uptime) ELSE 0

\* The counters of a neighbor after the loop over the peer's AfiSafis, from the
\* i-th on
RECURSIVE AfiSafiLoop(_, _, _)
AfiSafiLoop(neigh, afiSafis, i) ==
    IF i > Len(afiSafis) THEN neigh
    ELSE LET received == neigh.RoutesReceived + afiSafis[i].Received
             exported == neigh.RoutesExported + afiSafis[i].Advertised
             accepted == neigh.RoutesAccepted + afiSafis[i].Accepted
         IN AfiSafiLoop([neigh EXCEPT !.RoutesReceived = received,
                                      !.RoutesExported = exported,
                                      !.RoutesAccepted = accepted,
                                      !.RoutesFiltered = @ + (received - accepted)],
                        afiSafis, i + 1)

\* One round of the receive loop of Neighbors on a record received
GobgpNeighborsRecv(neighbors, peer, t) ==
    LET neigh == [Address |-> peer.Address, ASN |-> peer.PeerAs,
                  State |-> SessionStateName(peer.SessionState),
                  ID |-> PeerHash(peer), RouteServerID |-> cfgID,
                  RoutesReceived |-> 0, RoutesExported |-> 0,
                  RoutesAccepted |-> 0, RoutesFiltered |-> 0,
                  Uptime |-> Since(peer.Uptime, t)]
    IN Append(neighbors, AfiSafiLoop(neigh, peer.AfiSafis, 1))

\* One round of the receive loop of NeighborsStatus on a record received: ns
\* is filled in and dropped, response.Neighbors is not appended to
GobgpNeighborsStatusRecv(neighbors, peer, t) ==
    LET ns == [ID |-> PeerHash(peer),
               State |-> SessionStateName(peer.SessionState),
               Since |-> Since(peer.Uptime, t)]
    IN neighbors

(***************************************************************************)
(* The state machine.                                                      *)
(***************************************************************************)
NoCache == Nil
Idle == [pc |-> "idle", method |-> "none", received |-> <<>>, neighbors |-> <<>>]
NoCall == [method |-> "none", id |-> "", outcome |-> "none", response |-> Nil,
           requests |-> <<>>, answers |-> <<>>, failed |-> 0, received |-> <<>>,
           count |-> 0, at |-> 0]
NoTask == [pc |-> "idle", method |-> "none", id |-> "", nb |-> <<>>, i |-> 0,
           outcome |-> "none", response |-> Nil, fetched |-> {}]
\* Two callers run concurrently
Tasks == {1, 2}

Init ==
    /\ adapter \in {"openbgpd", "gobgp"}
    /\ cacheTTL \in (IF adapter = "openbgpd" THEN {0, CacheTTL} ELSE {CacheTTL})
    /\ now = 0
    /\ calls = 0
    /\ stream = Idle
    /\ last = NoCall
    /\ held = Nil
    /\ tasks = [k \in Tasks |-> NoTask]
    /\ accessed = <<>>
    /\ IF adapter = "openbgpd"
       THEN LET src == NewBgplgdSource(cacheTTL)
            IN /\ neighborsCache = src.neighborsCache
               /\ neighborsSummaryCache = src.neighborsSummaryCache
               /\ routesCache = src.routesCache
               /\ routesReceivedCache = src.routesReceivedCache
               /\ routesFilteredCache = src.routesFilteredCache
               /\ routesRequiredCache = NoCache
               /\ routesNotExportedCache = NoCache
       ELSE LET gobgp == NewGoBGP
            IN /\ neighborsCache = gobgp.neighborsCache
               /\ neighborsSummaryCache = NoCache
               /\ routesCache = NoCache
               /\ routesReceivedCache = gobgp.routesReceivedCache
               /\ routesFilteredCache = gobgp.routesFilteredCache
               /\ routesRequiredCache = gobgp.routesRequiredCache
               /\ routesNotExportedCache = gobgp.routesNotExportedCache

\* What a finished call of the polling adapter handed back
\* with what each of its requests came to: the decoded body, or an error
Answer(out) == IF out.status = "ok" THEN out ELSE [status |-> "error", body |-> <<>>]

\* reply[q] is the backend's answer to request q
Result(method, id, r, reply) ==
    [method |-> method, id |-> id,
     outcome |-> IF r.err THEN "error" ELSE "ok",
     response |-> r.response, requests |-> r.requests,
     answers |-> [i \in DOMAIN r.requests |-> Answer(reply[r.requests[i]])],
     failed |-> r.failed, received |-> <<>>, count |-> 0, at |-> now]

NoReply == [q \in {} |-> HTTPError]
Reply(request, out) == [q \in {request} |-> out]

\* What a finished call of the streaming adapter handed back
GResult(method, id, r, received) ==
    [method |-> method, id |-> id, outcome |-> r.outcome,
     response |-> r.response, requests |-> <<>>, answers |-> <<>>,
     failed |-> r.failed, received |-> received, count |-> 0, at |-> now]

CachedMethods ==
    {"Neighbors", "NeighborsSummary", "Routes", "RoutesReceived", "RoutesFiltered"}

\* The entry the polling adapter's cache of `method` holds for `id`
Stored(method, id) ==
    CASE method = "Neighbors" -> neighborsCache.response
      [] method = "NeighborsSummary" -> neighborsSummaryCache.response
      [] method = "Routes" -> routesCache.responses[id]
      [] method = "RoutesReceived" -> routesReceivedCache.responses[id]
      [] method = "RoutesFiltered" -> routesFilteredCache.responses[id]

\* The same entry once the step is taken
StoredAfter(method, id) ==
    CASE method = "Neighbors" -> neighborsCache'.response
      [] method = "NeighborsSummary" -> neighborsSummaryCache'.response
      [] method = "Routes" -> routesCache'.responses[id]
      [] method = "RoutesReceived" -> routesReceivedCache'.responses[id]
      [] method = "RoutesFiltered" -> routesFilteredCache'.responses[id]

\* A fetched response and the entry Set stores are one object: the caller of
\* the fetch holds it for as long as it likes.  held follows the object the
\* latest fetch handed out: `cached` while the cache still holds that very
\* object, `response` what the caller reads in it.
Handed ==
    IF last'.outcome = "ok" /\ last'.requests # <<>>
    THEN held' = Ptr([method |-> last'.method, id |-> last'.id,
                      response |-> Deref(last'.response),
                      cached |-> /\ last'.method \in CachedMethods
                                 /\ StoredAfter(last'.method, last'.id) # Nil])
    ELSE IF held = Nil \/ ~Deref(held).cached
    THEN held' = held
    ELSE LET h == Deref(held)
             entry == StoredAfter(h.method, h.id)
             \* a nested RoutesFiltered of a failed Neighbors stored anew
             replaced ==
                 /\ last'.method = "Neighbors" /\ h.method = "RoutesFiltered"
                 /\ \E i \in DOMAIN last'.requests :
                      /\ last'.requests[i] = ShowNeighborRIBRequest(h.id)
                      /\ last'.answers[i].status = "ok"
         IN IF entry = Nil \/ replaced
            THEN held' = Ptr([h EXCEPT !.cached = FALSE])
            ELSE held' = Ptr([h EXCEPT !.response = Deref(entry)])

Polling == adapter = "openbgpd" /\ calls < MaxCalls
Streaming == adapter = "gobgp" /\ calls < MaxCalls /\ stream.pc = "idle"

Tick ==
    /\ now < MaxTime
    /\ now' = now + 1
    /\ UNCHANGED <<adapter, cacheTTL, accessed, tasks, held, calls, caches, stream, last>>

StatusCall ==
    /\ Polling
    /\ calls' = calls + 1
    /\ last' = Result("Status", "", Returned(Nil, Ptr(Status(now, cacheTTL)), <<>>),
                     NoReply)
    /\ UNCHANGED <<adapter, cacheTTL, accessed, tasks, now, caches, stream>>
    /\ Handed

\* The backend's answers to the RIB requests Neighbors can make once the
\* neighbor list is `out`: one for each neighbor listed
RIBAnswers(out) ==
    {f \in [NeighborIDs -> RIBOutcomes] :
        \A n \in NeighborIDs :
            (out.status # "ok" \/ \A i \in DOMAIN out.body : out.body[i].ID # n)
                => f[n] = HTTPError}

NeighborsCall ==
    /\ Polling
    /\ \E out \in NeighborsOutcomes : \E ribOut \in RIBAnswers(out) :
         LET r == Neighbors(neighborsCache, routesFilteredCache, out, ribOut,
                            now, cacheTTL)
         IN /\ neighborsCache' = r.neighborsCache
            /\ routesFilteredCache' = r.routesFilteredCache
            /\ last' = Result("Neighbors", "", r,
                            [q \in {ShowNeighborsRequest} \cup
                                   {ShowNeighborRIBRequest(n) : n \in NeighborIDs} |->
                               IF q = ShowNeighborsRequest THEN out
                               ELSE ribOut[q.neighbor]])
    /\ calls' = calls + 1
    /\ UNCHANGED <<adapter, cacheTTL, accessed, tasks, now, neighborsSummaryCache, routesCache,
                   routesReceivedCache, routesRequiredCache,
                   routesNotExportedCache, stream>>
    /\ Handed

NeighborsSummaryCall ==
    /\ Polling
    /\ \E out \in NeighborsOutcomes :
         LET r == NeighborsSummary(neighborsSummaryCache, out, now, cacheTTL)
         IN /\ neighborsSummaryCache' = r.cache
            /\ last' = Result("NeighborsSummary", "", r,
                            Reply(ShowNeighborsRequest, out))
    /\ calls' = calls + 1
    /\ UNCHANGED <<adapter, cacheTTL, accessed, tasks, now, neighborsCache, routesCache,
                   routesReceivedCache, routesFilteredCache, routesRequiredCache,
                   routesNotExportedCache, stream>>
    /\ Handed

NeighborsStatusCall ==
    /\ Polling
    /\ \E out \in StatusOutcomes :
         last' = Result("NeighborsStatus", "", NeighborsStatus(out, now, cacheTTL),
                        Reply(ShowNeighborsSummaryRequest, out))
    /\ calls' = calls + 1
    /\ UNCHANGED <<adapter, cacheTTL, accessed, tasks, now, caches, stream>>
    /\ Handed

RoutesCall ==
    /\ Polling
    /\ \E neighborID \in NeighborIDs, out \in RIBOutcomes :
         LET r == Routes(routesCache, neighborID, out, now, cacheTTL)
         IN /\ routesCache' = r.cache
            /\ last' = Result("Routes", neighborID, r,
                            Reply(ShowNeighborRIBRequest(neighborID), out))
    /\ calls' = calls + 1
    /\ UNCHANGED <<adapter, cacheTTL, accessed, tasks, now, neighborsCache, neighborsSummaryCache,
                   routesReceivedCache, routesFilteredCache, routesRequiredCache,
                   routesNotExportedCache, stream>>
    /\ Handed

RoutesReceivedCall ==
    /\ Polling
    /\ \E neighborID \in NeighborIDs, out \in RIBOutcomes :
         LET r == RoutesReceived(routesReceivedCache, neighborID, out, now, cacheTTL)
         IN /\ routesReceivedCache' = r.cache
            /\ last' = Result("RoutesReceived", neighborID, r,
                            Reply(ShowNeighborRIBRequest(neighborID), out))
    /\ calls' = calls + 1
    /\ UNCHANGED <<adapter, cacheTTL, accessed, tasks, now, neighborsCache, neighborsSummaryCache,
                   routesCache, routesFilteredCache, routesRequiredCache,
                   routesNotExportedCache, stream>>
    /\ Handed

RoutesFilteredCall ==
    /\ Polling
    /\ \E neighborID \in NeighborIDs, out \in RIBOutcomes :
         LET r == RoutesFiltered(routesFilteredCache, neighborID, out, now, cacheTTL)
         IN /\ routesFilteredCache' = r.cache
            /\ last' = Result("RoutesFiltered", neighborID, r,
                            Reply(ShowNeighborRIBRequest(neighborID), out))
    /\ calls' = calls + 1
    /\ UNCHANGED <<adapter, cacheTTL, accessed, tasks, now, neighborsCache, neighborsSummaryCache,
                   routesCache, routesReceivedCache, routesRequiredCache,
                   routesNotExportedCache, stream>>
    /\ Handed

RoutesNotExportedCall ==
    /\ Polling
    /\ \E neighborID \in NeighborIDs :
         last' = Result("RoutesNotExported", neighborID,
                        Returned(Nil, Ptr(RoutesNotExported(now, cacheTTL)), <<>>),
                        NoReply)
    /\ calls' = calls + 1
    /\ UNCHANGED <<adapter, cacheTTL, accessed, tasks, now, caches, stream>>
    /\ Handed

AllRoutesCall ==
    /\ Polling
    /\ \E out \in RIBOutcomes :
         last' = Result("AllRoutes", "", AllRoutes(out, now, cacheTTL),
                        Reply(ShowRIBRequest, out))
    /\ calls' = calls + 1
    /\ UNCHANGED <<adapter, cacheTTL, accessed, tasks, now, caches, stream>>
    /\ Handed

ExpireCachesCall ==
    /\ Polling
    /\ LET e == BgplgdExpireCaches(routesReceivedCache, now)
       IN /\ routesReceivedCache' = e.cache
          /\ last' = [NoCall EXCEPT !.method = "ExpireCaches", !.outcome = "ok",
                                    !.count = e.count, !.at = now]
    /\ calls' = calls + 1
    /\ UNCHANGED <<adapter, cacheTTL, accessed, tasks, now, neighborsCache, neighborsSummaryCache,
                   routesCache, routesFilteredCache, routesRequiredCache,
                   routesNotExportedCache, stream>>
    /\ Handed

(***************************************************************************)
(* The streaming adapter's calls.  Neighbors, NeighborsSummary (an alias)  *)
(* and NeighborsStatus open a peer stream and receive from it round by     *)
(* round; the other calls are one step each.                               *)
(***************************************************************************)
StreamMethods == {"Neighbors", "NeighborsSummary", "NeighborsStatus"}

\* gobgp.client.ListPeer: an error is returned, or the stream is open
GobgpListPeer ==
    /\ Streaming
    /\ \E method \in StreamMethods, ok \in BOOLEAN :
         IF ok
         THEN /\ stream' = [pc |-> "recv", method |-> method,
                            received |-> <<>>, neighbors |-> <<>>]
              /\ last' = NoCall
         ELSE /\ stream' = Idle
              /\ last' = GResult(method, "", GError, <<>>)
    /\ calls' = calls + 1
    /\ UNCHANGED <<adapter, cacheTTL, accessed, tasks, held, now, caches>>

\* resp.Recv() hands over a peer record
GobgpRecvPeer ==
    /\ adapter = "gobgp" /\ stream.pc = "recv"
    /\ Len(stream.received) < MaxPeers
    /\ \E peer \in Peers :
         stream' = [stream EXCEPT
                      !.received = Append(@, peer),
                      !.neighbors = IF stream.method = "NeighborsStatus"
                                    THEN GobgpNeighborsStatusRecv(@, peer, now)
                                    ELSE GobgpNeighborsRecv(@, peer, now)]
    /\ UNCHANGED <<adapter, cacheTTL, accessed, tasks, held, now, calls, caches, last>>

\* resp.Recv() returns io.EOF: the loop breaks and the response is returned
GobgpRecvEOF ==
    /\ adapter = "gobgp" /\ stream.pc = "recv"
    /\ last' = GResult(stream.method, "",
                       GReturned(Ptr([Neighbors |-> stream.neighbors])),
                       stream.received)
    /\ stream' = Idle
    /\ UNCHANGED <<adapter, cacheTTL, accessed, tasks, held, now, calls, caches>>

\* resp.Recv() fails with another error (the processing timeout included):
\* err is not io.EOF, the loop goes on and reads _resp.Peer of a nil _resp
GobgpRecvError ==
    /\ adapter = "gobgp" /\ stream.pc = "recv"
    /\ last' = GResult(stream.method, "", GPanic, stream.received)
    /\ stream' = Idle
    /\ UNCHANGED <<adapter, cacheTTL, accessed, tasks, held, now, calls, caches>>

\* The backend's answers to the table dumps a call can ask for: one for the
\* peer looked up, if it is found
DumpAnswers(id, peersOut) ==
    IF lookupNeighbor(id, peersOut).err THEN {GRPCError} ELSE DumpOutcomes

\* and for AllRoutes one for each peer listed
AllDumpAnswers(peersOut) ==
    {f \in [{"1_a1", "2_a2"} -> DumpOutcomes] :
        \A id \in DOMAIN f :
            (\A i \in DOMAIN GetNeighbors(peersOut).peers :
                 PeerHash(GetNeighbors(peersOut).peers[i]) # id)
                => f[id] = GRPCError}

GobgpStatusCall ==
    /\ Streaming
    /\ \E ok \in BOOLEAN : last' = GResult("Status", "", GobgpStatus(ok), <<>>)
    /\ calls' = calls + 1
    /\ UNCHANGED <<adapter, cacheTTL, accessed, tasks, held, now, caches, stream>>

GobgpRoutesCall ==
    /\ Streaming
    /\ \E id \in GobgpIDs, peersOut \in PeersOutcomes :
       \E dumpOut \in DumpAnswers(id, peersOut) :
         last' = GResult("Routes", id, GobgpRoutes(id, peersOut, dumpOut), <<>>)
    /\ calls' = calls + 1
    /\ UNCHANGED <<adapter, cacheTTL, accessed, tasks, held, now, caches, stream>>

GobgpRoutesReceivedCall ==
    /\ Streaming
    /\ \E id \in GobgpIDs, peersOut \in PeersOutcomes :
       \E dumpOut \in DumpAnswers(id, peersOut) :
         last' = GResult("RoutesReceived", id,
                         GobgpRoutesReceived(id, peersOut, dumpOut), <<>>)
    /\ calls' = calls + 1
    /\ UNCHANGED <<adapter, cacheTTL, accessed, tasks, held, now, caches, stream>>

GobgpRoutesFilteredCall ==
    /\ Streaming
    /\ \E id \in GobgpIDs, peersOut \in PeersOutcomes :
       \E dumpOut \in DumpAnswers(id, peersOut) :
         last' = GResult("RoutesFiltered", id,
                         GobgpRoutesFiltered(id, peersOut, dumpOut), <<>>)
    /\ calls' = calls + 1
    /\ UNCHANGED <<adapter, cacheTTL, accessed, tasks, held, now, caches, stream>>

GobgpRoutesNotExportedCall ==
    /\ Streaming
    /\ \E id \in GobgpIDs, peersOut \in PeersOutcomes :
       \E dumpOut \in DumpAnswers(id, peersOut) :
         last' = GResult("RoutesNotExported", id,
                         GobgpRoutesNotExported(id, peersOut, dumpOut), <<>>)
    /\ calls' = calls + 1
    /\ UNCHANGED <<adapter, cacheTTL, accessed, tasks, held, now, caches, stream>>

GobgpAllRoutesCall ==
    /\ Streaming
    /\ \E peersOut \in PeersOutcomes : \E dumps \in AllDumpAnswers(peersOut) :
         last' = GResult("AllRoutes", "", GobgpAllRoutes(peersOut, dumps), <<>>)
    /\ calls' = calls + 1
    /\ UNCHANGED <<adapter, cacheTTL, accessed, tasks, held, now, caches, stream>>

GobgpLookupPrefixCall ==
    /\ Streaming
    /\ last' = GResult("LookupPrefix", "", GobgpLookupPrefix, <<>>)
    /\ calls' = calls + 1
    /\ UNCHANGED <<adapter, cacheTTL, accessed, tasks, held, now, caches, stream>>

GobgpExpireCachesCall ==
    /\ Streaming
    /\ LET e == GobgpExpireCaches(routesRequiredCache, routesNotExportedCache, now)
       IN /\ routesRequiredCache' = e.routesRequiredCache
          /\ routesNotExportedCache' = e.routesNotExportedCache
          /\ last' = [NoCall EXCEPT !.method = "ExpireCaches", !.outcome = "ok",
                                    !.count = e.count, !.at = now]
    /\ calls' = calls + 1
    /\ UNCHANGED <<adapter, cacheTTL, accessed, tasks, held, now, neighborsCache, neighborsSummaryCache,
                   routesCache, routesReceivedCache, routesFilteredCache, stream>>

Next ==
    \/ Tick
    \/ StatusCall
    \/ NeighborsCall
    \/ NeighborsSummaryCall
    \/ NeighborsStatusCall
    \/ RoutesCall
    \/ RoutesReceivedCall
    \/ RoutesFilteredCall
    \/ RoutesNotExportedCall
    \/ AllRoutesCall
    \/ ExpireCachesCall
    \/ GobgpListPeer
    \/ GobgpRecvPeer
    \/ GobgpRecvEOF
    \/ GobgpRecvError
    \/ GobgpStatusCall
    \/ GobgpRoutesCall
    \/ GobgpRoutesReceivedCall
    \/ GobgpRoutesFilteredCall
    \/ GobgpRoutesNotExportedCall
    \/ GobgpAllRoutesCall
    \/ GobgpLookupPrefixCall
    \/ GobgpExpireCachesCall

Spec == Init /\ [][Next]_vars

(***************************************************************************)
(* The properties.                                                         *)
(***************************************************************************)
CallReturns == calls' = calls + 1

Unexpired(entry, t) == entry # Nil /\ t < Deref(entry).Meta.TTL

\* C1: a cached call of the polling adapter that finds an unexpired entry in
\* its cache asks the backend nothing and returns that entry: its payload,
\* CachedAt and TTL as stored (TTL is still the time it was stored at plus the
\* configured TTL), ResultFromCache = true.
C1_CacheHitReturnsStored ==
    [][(/\ adapter = "openbgpd"
        /\ CallReturns
        /\ last'.method \in CachedMethods
        /\ Unexpired(Stored(last'.method, last'.id), now))
       => /\ last'.outcome = "ok"
          /\ last'.requests = <<>>
          /\ last'.response # Nil
          /\ Deref(last'.response) =
                [Deref(Stored(last'.method, last'.id)) EXCEPT
                    !.Meta.ResultFromCache = TRUE]
          /\ Deref(last'.response).Meta.CachedAt <= now
          /\ Deref(last'.response).Meta.TTL =
                Deref(last'.response).Meta.CachedAt + cacheTTL]_vars

\* A hit at a later time than the entry was stored at
C1_Witness ==
    /\ adapter = "openbgpd"
    /\ last.method \in CachedMethods
    /\ last.outcome = "ok"
    /\ last.requests = <<>>
    /\ Deref(last.response).Meta.ResultFromCache
    /\ Deref(last.response).Meta.CachedAt < last.at

\* C2 as claimed: a call that returns an error leaves every cache of the
\* Source exactly as it was.
C2_ErrorLeavesEveryCacheUnchanged ==
    [][(CallReturns /\ last'.outcome = "error") => caches' = caches]_vars

\* What a successful RoutesFiltered lookup stores at time t: a complete response
CompleteFiltered(t) ==
    {[Meta |-> [CachedAt |-> t, ResultFromCache |-> FALSE, TTL |-> t + cacheTTL],
      Imported |-> EmptyRoutes, NotExported |-> EmptyRoutes,
      Filtered |-> MakeRoutes(SelectSeq(b, LAMBDA r : "reject" \in r.LargeCommunities))] :
        b \in RIBs}

\* C2, amended: a call that returns an error stores nothing for the request
\* that failed.  Every cache but routesFilteredCache is unchanged, and
\* routesFilteredCache changes only in a failing Neighbors(), and there only
\* by the RoutesFiltered lookups that succeeded before the failure: each left
\* its own complete response (fetched now, or the stored one marked as served
\* from the cache), or evicted another key's entry; the key whose lookup
\* failed gained nothing.
C2_ErrorStoresOnlyNestedSuccesses ==
    [][(CallReturns /\ last'.outcome = "error")
       => /\ neighborsCache' = neighborsCache
          /\ neighborsSummaryCache' = neighborsSummaryCache
          /\ routesCache' = routesCache
          /\ routesReceivedCache' = routesReceivedCache
          /\ routesRequiredCache' = routesRequiredCache
          /\ routesNotExportedCache' = routesNotExportedCache
          /\ last'.method # "Neighbors" => routesFilteredCache' = routesFilteredCache
          /\ (adapter = "openbgpd" /\ last'.method = "Neighbors") =>
               LET reqs == last'.requests
                   fetched == {reqs[i].neighbor : i \in 2..(Len(reqs) - 1)}
                   failedKey == reqs[Len(reqs)].neighbor
               IN \A k \in NeighborIDs :
                    LET before == routesFilteredCache.responses[k]
                        after == routesFilteredCache'.responses[k]
                    IN /\ \/ after = before
                          \/ after = Nil
                          \/ /\ Unexpired(before, now)
                             /\ after = Ptr([Deref(before) EXCEPT
                                               !.Meta.ResultFromCache = TRUE])
                          \/ /\ k \in fetched
                             /\ after # Nil
                             /\ Deref(after) \in CompleteFiltered(now)
                       /\ k = failedKey => after \in {before, Nil}]_vars

\* Neighbors() failed at its second lookup and the first lookup's response is
\* in routesFilteredCache
C2_Witness ==
    /\ adapter = "openbgpd"
    /\ last.method = "Neighbors"
    /\ last.outcome = "error"
    /\ Len(last.requests) = 3
    /\ last.at = now
    /\ \E k \in NeighborIDs :
         /\ routesFilteredCache.responses[k] # Nil
         /\ Deref(routesFilteredCache.responses[k]).Meta.CachedAt = now
         /\ ~Deref(routesFilteredCache.responses[k]).Meta.ResultFromCache

\* The TTL-expired entries a cache holds at time t
ExpiredInNeighborsCache(c, t) ==
    IF c = NoCache THEN 0
    ELSE IF c.response # Nil /\ Deref(c.response).Meta.TTL <= t THEN 1 ELSE 0

ExpiredInRoutesCache(c, t) ==
    IF c = NoCache THEN 0
    ELSE Cardinality({k \in NeighborIDs :
                        c.responses[k] # Nil /\ Deref(c.responses[k]).Meta.TTL <= t})

\* C3 as claimed: after ExpireCaches() no cache of the Source holds an expired
\* entry, and the count returned is the number of expired entries all its
\* caches held.
C3_ExpireCachesSweepsEveryCache ==
    [][(CallReturns /\ last'.method = "ExpireCaches")
       => /\ ExpiredInNeighborsCache(neighborsCache', now) = 0
          /\ ExpiredInNeighborsCache(neighborsSummaryCache', now) = 0
          /\ ExpiredInRoutesCache(routesCache', now) = 0
          /\ ExpiredInRoutesCache(routesReceivedCache', now) = 0
          /\ ExpiredInRoutesCache(routesFilteredCache', now) = 0
          /\ ExpiredInRoutesCache(routesRequiredCache', now) = 0
          /\ ExpiredInRoutesCache(routesNotExportedCache', now) = 0
          /\ last'.count =
               ExpiredInNeighborsCache(neighborsCache, now)
               + ExpiredInNeighborsCache(neighborsSummaryCache, now)
               + ExpiredInRoutesCache(routesCache, now)
               + ExpiredInRoutesCache(routesReceivedCache, now)
               + ExpiredInRoutesCache(routesFilteredCache, now)
               + ExpiredInRoutesCache(routesRequiredCache, now)
               + ExpiredInRoutesCache(routesNotExportedCache, now)]_vars

\* C4 as claimed: no call ends in a panic.
C4_NoCallPanics == last.outcome # "panic"

RouteMethods ==
    {"Routes", "RoutesReceived", "RoutesFiltered", "RoutesNotExported", "AllRoutes"}
RoutesReturned == last.method \in RouteMethods /\ last.response # Nil

\* C5 as claimed: in a RoutesResponse returned, no route is in two of
\* Imported, Filtered and NotExported.
C5_SequencesDisjoint ==
    RoutesReturned =>
        LET resp == Deref(last.response)
        IN /\ Range(resp.Imported.items) \cap Range(resp.Filtered.items) = {}
           /\ Range(resp.Imported.items) \cap Range(resp.NotExported.items) = {}
           /\ Range(resp.Filtered.items) \cap Range(resp.NotExported.items) = {}

PresentAndEmpty(routes) == ~routes.isNil /\ routes.items = <<>>

\* C6 as claimed: a successful RoutesReceived or RoutesFiltered has the
\* sequences it was not asked for present and empty, not null.
C6_OtherSequencesEmptyNotNull ==
    /\ (last.method = "RoutesReceived" /\ last.outcome = "ok") =>
          /\ PresentAndEmpty(Deref(last.response).Filtered)
          /\ PresentAndEmpty(Deref(last.response).NotExported)
    /\ (last.method = "RoutesFiltered" /\ last.outcome = "ok") =>
          /\ PresentAndEmpty(Deref(last.response).Imported)
          /\ PresentAndEmpty(Deref(last.response).NotExported)

\* C7 as claimed: a multi-step call one of whose backend calls failed returns
\* an error and no response.
C7_NoPartialSuccess ==
    (last.method \in {"AllRoutes", "Neighbors"} /\ last.failed > 0)
        => last.outcome = "error" /\ last.response = Nil

\* C8 as claimed: a call consuming a peer stream ends by returning, with a
\* response at end-of-stream and with an error when a receive failed (the
\* processing timeout elapsed).
C8_StreamCallReturns ==
    (adapter = "gobgp" /\ last.method \in StreamMethods)
        => /\ last.outcome \in {"ok", "error"}
           /\ last.failed > 0 <=> last.outcome = "error"
           /\ last.failed = 0 <=> last.response # Nil

\* C9 as claimed: NeighborsStatus() of the streaming adapter returns one entry
\* per peer received, in order: the peer's ID, "up" iff ESTABLISHED, the uptime.
C9_NeighborsStatusEntryPerPeer ==
    (adapter = "gobgp" /\ last.method = "NeighborsStatus" /\ last.outcome = "ok")
        => LET ns == Deref(last.response).Neighbors
           IN /\ Len(ns) = Len(last.received)
              /\ \A i \in DOMAIN ns :
                   /\ ns[i].ID = PeerHash(last.received[i])
                   /\ ns[i].State = "up" <=> last.received[i].SessionState = "ESTABLISHED"
                   /\ ns[i].State \in {"up", "down"}

\* C10: Neighbors() of the streaming adapter, and NeighborsSummary() with it,
\* return one neighbor per peer received, in arrival order, with the peer's
\* ID and State "up" iff the session is ESTABLISHED, "down" otherwise.
C10_NeighborPerPeerInOrder ==
    (/\ adapter = "gobgp"
     /\ last.method \in {"Neighbors", "NeighborsSummary"}
     /\ last.outcome = "ok")
        => LET ns == Deref(last.response).Neighbors
           IN /\ Len(ns) = Len(last.received)
              /\ \A i \in DOMAIN ns :
                   /\ ns[i].ID = PeerHash(last.received[i])
                   /\ ns[i].Address = last.received[i].Address
                   /\ ns[i].State =
                        (IF last.received[i].SessionState = "ESTABLISHED"
                         THEN "up" ELSE "down")

\* Two peers streamed, the first ESTABLISHED and the second not
C10_Witness ==
    /\ adapter = "gobgp"
    /\ last.method = "Neighbors"
    /\ last.outcome = "ok"
    /\ Len(last.received) = 2
    /\ last.received[1].SessionState = "ESTABLISHED"
    /\ last.received[2].SessionState # "ESTABLISHED"
    /\ Deref(last.response).Neighbors[1].State = "up"
    /\ Deref(last.response).Neighbors[2].State = "down"

(***************************************************************************)
(* C11 to C20.                                                             *)
(***************************************************************************)
\* The calls of the streaming adapter the cache skeleton covers
GobgpCachedMethods ==
    {"Neighbors", "Routes", "RoutesReceived", "RoutesFiltered", "RoutesNotExported"}

\* C11: the streaming adapter follows the cache skeleton: once a Neighbors()
\* call (or a Routes, RoutesReceived, RoutesFiltered or RoutesNotExported call
\* for an id) has succeeded, the same call made again before any time has
\* passed is served from the cache: it opens no backend stream, it cannot
\* fail, and it returns the response the first call returned.
C11_RepeatedStreamingCallServedFromCache ==
    [][(/\ adapter = "gobgp"
        /\ last.outcome = "ok" /\ last.method \in GobgpCachedMethods
        /\ last.at = now
        /\ calls' = calls + 1
        /\ \/ stream'.pc = "recv" /\ stream'.method = last.method
           \/ last'.method = last.method /\ last'.id = last.id)
       => (/\ stream' = Idle
           /\ last'.outcome = "ok"
           /\ last'.response = last.response)]_vars

UncachedMethods == {"Status", "NeighborsStatus", "AllRoutes"}

\* A step of a Status, NeighborsStatus or AllRoutes call: the call itself, or
\* for the streaming NeighborsStatus a step of its peer stream
UncachedStep ==
    \/ calls' = calls + 1 /\ last'.method \in UncachedMethods
    \/ stream.method = "NeighborsStatus"
    \/ stream'.method = "NeighborsStatus"

\* C12: Status, NeighborsStatus and AllRoutes are never cached.  No step of
\* such a call changes any cache, whatever the caches hold; each polling
\* NeighborsStatus and AllRoutes call issues its backend request (GET /summary,
\* GET /rib) however many calls came before, and each streaming
\* NeighborsStatus answer comes off a peer stream opened for it; no response
\* of these calls has ResultFromCache = true.
C12_UncachedCallsBypassCaches ==
    [][UncachedStep =>
         /\ caches' = caches
         /\ adapter = "openbgpd" =>
              /\ last'.method = "NeighborsStatus" =>
                   last'.requests = <<ShowNeighborsSummaryRequest>>
              /\ last'.method = "AllRoutes" => last'.requests = <<ShowRIBRequest>>
              /\ last'.response # Nil =>
                   ~Deref(last'.response).Meta.ResultFromCache
         /\ (/\ adapter = "gobgp"
             /\ last' # last
             /\ last'.method = "NeighborsStatus" /\ last'.outcome = "ok")
                => stream.pc = "recv"]_vars

\* AllRoutes has answered from the backend while routesCache held an entry
C12_Witness ==
    /\ adapter = "openbgpd" /\ calls = 2
    /\ last.method = "AllRoutes" /\ last.outcome = "ok"
    /\ last.requests = <<ShowRIBRequest>>
    /\ Len(Deref(last.response).Filtered.items) > 0
    /\ \E k \in NeighborIDs : Unexpired(routesCache.responses[k], now)

\* C13: a response that a backend fetch (a cache miss) handed to its caller
\* reads ResultFromCache = false in every state after, whatever calls are made
\* on the Source later, hits on the entry that fetch stored included.
C13_FetchedResponseStaysUnmarked ==
    held # Nil => ~Deref(held).response.Meta.ResultFromCache

\* C14: with cfg.CacheTTL = 0 the polling adapter is stateless: whatever calls
\* were made, every cache is as constructed (each Set was a no-op) and every
\* Get reports absent, a Neighbors, NeighborsSummary, Routes, RoutesReceived or
\* RoutesFiltered call has issued its backend request, and no response has
\* ResultFromCache = true.  The streaming adapter takes no TTL: its caches are
\* as constructed in every state, for no call reads or writes them.
C14_ZeroTTLIsStateless ==
    /\ (adapter = "openbgpd" /\ cacheTTL = 0) =>
         /\ LET src == NewBgplgdSource(0)
            IN /\ neighborsCache = src.neighborsCache
               /\ neighborsSummaryCache = src.neighborsSummaryCache
               /\ routesCache = src.routesCache
               /\ routesReceivedCache = src.routesReceivedCache
               /\ routesFilteredCache = src.routesFilteredCache
         /\ NeighborsCacheGet(neighborsCache, now) = Nil
         /\ NeighborsCacheGet(neighborsSummaryCache, now) = Nil
         /\ \A k \in NeighborIDs :
              /\ RoutesCacheGet(routesCache, k, now) = Nil
              /\ RoutesCacheGet(routesReceivedCache, k, now) = Nil
              /\ RoutesCacheGet(routesFilteredCache, k, now) = Nil
         /\ last.method \in CachedMethods =>
              /\ last.requests # <<>>
              /\ last.requests[1] = IF last.method \in {"Neighbors", "NeighborsSummary"}
                                    THEN ShowNeighborsRequest
                                    ELSE ShowNeighborRIBRequest(last.id)
         /\ last.response # Nil => ~Deref(last.response).Meta.ResultFromCache
    /\ adapter = "gobgp" =>
         LET gobgp == NewGoBGP
         IN /\ neighborsCache = gobgp.neighborsCache
            /\ routesReceivedCache = gobgp.routesReceivedCache
            /\ routesFilteredCache = gobgp.routesFilteredCache
            /\ routesRequiredCache = gobgp.routesRequiredCache
            /\ routesNotExportedCache = gobgp.routesNotExportedCache

\* With CacheTTL = 0 a second call has fetched a neighbor's routes and handed
\* them out, and the cache holds nothing
C14_Witness ==
    /\ adapter = "openbgpd" /\ cacheTTL = 0 /\ calls = 2
    /\ last.method = "Routes" /\ last.outcome = "ok"
    /\ Len(Deref(last.response).Imported.items) > 0
    /\ held # Nil /\ Deref(held).response = Deref(last.response)
    /\ ~Deref(held).cached
    /\ routesCache.responses[last.id] = Nil

\* C15: NeighborsSummary of the polling adapter makes no per-neighbor lookup:
\* a call that misses issues exactly one backend request, GET /neighbors,
\* however many neighbors the list holds, and a call, hit or miss, changes no
\* cache but neighborsSummaryCache: routesFilteredCache and neighborsCache in
\* particular are as they were.
C15_NeighborsSummaryOneRequest ==
    [][(adapter = "openbgpd" /\ CallReturns /\ last'.method = "NeighborsSummary")
       => /\ last'.requests \in {<<>>, <<ShowNeighborsRequest>>}
          /\ NeighborsCacheGet(neighborsSummaryCache, now) = Nil
                => last'.requests = <<ShowNeighborsRequest>>
          /\ last'.outcome = "ok" =>
                \A i \in DOMAIN Deref(last'.response).Neighbors :
                    Deref(last'.response).Neighbors[i].RoutesFiltered = 0
          /\ UNCHANGED <<neighborsCache, routesCache, routesReceivedCache,
                         routesFilteredCache, routesRequiredCache,
                         routesNotExportedCache>>]_vars

\* NeighborsSummary has fetched a list of two neighbors with one request
\* while routesFilteredCache held nothing for them
C15_Witness ==
    /\ adapter = "openbgpd" /\ cacheTTL = CacheTTL
    /\ last.method = "NeighborsSummary" /\ last.outcome = "ok"
    /\ last.requests = <<ShowNeighborsRequest>>
    /\ Len(Deref(last.response).Neighbors) = 2
    /\ neighborsSummaryCache.response = last.response
    /\ \A k \in NeighborIDs : routesFilteredCache.responses[k] = Nil
    /\ neighborsCache.response = Nil

\* The routes of a RIB that carry a reject community
CarriesReject(route) == \E c \in route.LargeCommunities : c \in RejectCommunities
RejectedIn(rib) == {i \in DOMAIN rib : CarriesReject(rib[i])}

\* C16: a polling Neighbors() that misses and succeeds returns every neighbor
\* of the decoded list, in order, each with RouteServerID = the configured ID
\* and RoutesFiltered = the length of Filtered in what RoutesFiltered(its ID)
\* returned: the stored response where that lookup hit, the reject-tagged
\* routes of the RIB fetched where it missed.  A RoutesFiltered(id) that
\* misses returns in Filtered exactly the routes of the fetched RIB that carry
\* a reject community, and Imported and NotExported present and empty.
C16_NeighborsCountFilteredRoutes ==
    [][(/\ adapter = "openbgpd" /\ CallReturns
        /\ last'.outcome = "ok" /\ last'.requests # <<>>)
       => /\ last'.method = "Neighbors" =>
               LET body == last'.answers[1].body
                   ns == Deref(last'.response).Neighbors
                   asked(id) == {i \in DOMAIN last'.requests :
                                   last'.requests[i] = ShowNeighborRIBRequest(id)}
               IN /\ Len(ns) = Len(body)
                  /\ \A i \in DOMAIN ns :
                       /\ ns[i].ID = body[i].ID
                       /\ ns[i].RouteServerID = cfgID
                       /\ Cardinality(asked(ns[i].ID)) <= 1
                       /\ \A j \in asked(ns[i].ID) :
                            ns[i].RoutesFiltered =
                                Cardinality(RejectedIn(last'.answers[j].body))
                       /\ asked(ns[i].ID) = {} =>
                            /\ Unexpired(routesFilteredCache.responses[ns[i].ID], now)
                            /\ ns[i].RoutesFiltered =
                                 Len(Deref(routesFilteredCache.responses[ns[i].ID])
                                       .Filtered.items)
          /\ last'.method = "RoutesFiltered" =>
               LET rib == last'.answers[1].body
                   r == Deref(last'.response)
               IN /\ Len(r.Filtered.items) = Cardinality(RejectedIn(rib))
                  /\ \A route \in Range(rib) :
                       CarriesReject(route) <=> route \in Range(r.Filtered.items)
                  /\ Range(r.Filtered.items) \subseteq Range(rib)
                  /\ PresentAndEmpty(r.Imported)
                  /\ PresentAndEmpty(r.NotExported)]_vars

\* Neighbors has fetched a list of two: the first neighbor's count is that of
\* the stored RoutesFiltered response, the second's that of the RIB fetched
C16_Witness ==
    /\ adapter = "openbgpd"
    /\ last.method = "Neighbors" /\ last.outcome = "ok"
    /\ last.requests = <<ShowNeighborsRequest, ShowNeighborRIBRequest("n2")>>
    /\ Len(Deref(last.response).Neighbors) = 2
    /\ Deref(last.response).Neighbors[1].RoutesFiltered = 0
    /\ Deref(last.response).Neighbors[2].RoutesFiltered = 1
    /\ Deref(last.response).Neighbors[2].RouteServerID = cfgID

\* How many times route occurs in the sequence s
Occurrences(route, s) == Cardinality({i \in DOMAIN s : s[i] = route})

\* C17: a polling Routes(id) or AllRoutes() that fetched and succeeded
\* partitions the decoded route list: every decoded route is in exactly one of
\* Imported and Filtered, as often as it was decoded, nothing else is in
\* either, and a route is in Filtered iff one of its large communities is a
\* reject community.
C17_RoutesPartitioned ==
    (/\ adapter = "openbgpd" /\ last.method \in {"Routes", "AllRoutes"}
     /\ last.outcome = "ok" /\ last.requests # <<>>)
    => LET rib == last.answers[1].body
           r == Deref(last.response)
       IN /\ ~r.Imported.isNil /\ ~r.Filtered.isNil
          /\ Len(r.Imported.items) + Len(r.Filtered.items) = Len(rib)
          /\ Range(r.Imported.items) \cup Range(r.Filtered.items) = Range(rib)
          /\ Range(r.Imported.items) \cap Range(r.Filtered.items) = {}
          /\ \A route \in Range(rib) :
               /\ Occurrences(route, r.Imported.items)
                    + Occurrences(route, r.Filtered.items) = Occurrences(route, rib)
               /\ route \in Range(r.Filtered.items) <=> CarriesReject(route)

\* Routes has fetched a RIB of a clean and a reject-tagged route
C17_Witness ==
    /\ adapter = "openbgpd"
    /\ last.method = "Routes" /\ last.outcome = "ok"
    /\ last.answers = <<OK(<<r1, r2>>)>>
    /\ Deref(last.response).Imported.items = <<r1>>
    /\ Deref(last.response).Filtered.items = <<r2>>

\* The sum of a counter over the address families afiSafis
RECURSIVE SumOver(_, _)
SumOver(afiSafis, counter) ==
    IF afiSafis = <<>> THEN 0
    ELSE Head(afiSafis)[counter] + SumOver(Tail(afiSafis), counter)

\* The sum of received - accepted over the address families afiSafis
RECURSIVE SumRejected(_)
SumRejected(afiSafis) ==
    IF afiSafis = <<>> THEN 0
    ELSE (Head(afiSafis).Received - Head(afiSafis).Accepted)
         + SumRejected(Tail(afiSafis))

\* C18: each counter of a neighbor the streaming Neighbors() returns is the
\* sum over the peer's address families: RoutesReceived of received,
\* RoutesAccepted of accepted, RoutesExported of advertised, RoutesFiltered of
\* received - accepted; so RoutesFiltered = RoutesReceived - RoutesAccepted.
C18_CountersSumOverFamilies ==
    (/\ adapter = "gobgp" /\ last.method \in {"Neighbors", "NeighborsSummary"}
     /\ last.outcome = "ok")
    => \A i \in DOMAIN Deref(last.response).Neighbors :
         LET n == Deref(last.response).Neighbors[i]
             families == last.received[i].AfiSafis
         IN /\ n.RoutesReceived = SumOver(families, "Received")
            /\ n.RoutesAccepted = SumOver(families, "Accepted")
            /\ n.RoutesExported = SumOver(families, "Advertised")
            /\ n.RoutesFiltered = SumRejected(families)
            /\ n.RoutesFiltered = n.RoutesReceived - n.RoutesAccepted

\* The logical queries of the polling adapter and the request of each
Queries == CachedMethods \cup {"NeighborsStatus", "AllRoutes"}

RequestOf(method, id) ==
    CASE method \in {"Neighbors", "NeighborsSummary"} -> ShowNeighborsRequest
      [] method = "NeighborsStatus" -> ShowNeighborsSummaryRequest
      [] method = "AllRoutes" -> ShowRIBRequest
      [] OTHER -> ShowNeighborRIBRequest(id)

\* A query returns in this step that its cache, if it has one, cannot answer
QueryMisses ==
    /\ adapter = "openbgpd" /\ CallReturns
    /\ last'.method \in Queries
    /\ last'.method \in CachedMethods =>
         ~Unexpired(Stored(last'.method, last'.id), now)

KeyedMethods == {"Routes", "RoutesReceived", "RoutesFiltered"}

\* A cache whose Get reports absent and whose Set stores nothing
Bypassed == NewRoutesCache(TRUE, 0)

\* What a keyed method does after its Get has missed: the request, and on
\* success the response it builds
FetchedBy(method, id, out, t, ttl) ==
    CASE method = "Routes" -> Routes(Bypassed, id, out, t, ttl)
      [] method = "RoutesReceived" -> RoutesReceived(Bypassed, id, out, t, ttl)
      [] method = "RoutesFiltered" -> RoutesFiltered(Bypassed, id, out, t, ttl)

CacheOf(method) ==
    CASE method = "Routes" -> routesCache
      [] method = "RoutesReceived" -> routesReceivedCache
      [] method = "RoutesFiltered" -> routesFilteredCache

\* The cache of `method` becomes c, the other keyed caches stay
SetCacheOf(method, c) ==
    /\ routesCache' = IF method = "Routes" THEN c ELSE routesCache
    /\ routesReceivedCache' =
         IF method = "RoutesReceived" THEN c ELSE routesReceivedCache
    /\ routesFilteredCache' =
         IF method = "RoutesFiltered" THEN c ELSE routesFilteredCache

Fetch(method, id, response) == [method |-> method, id |-> id, response |-> response]

TaskDone(task, response) ==
    [task EXCEPT !.pc = "done", !.outcome = "ok", !.response = response]
TaskFailed(task) ==
    [task EXCEPT !.pc = "done", !.outcome = "error", !.response = Nil]

\* Routes, RoutesReceived, RoutesFiltered: response := cache.Get(neighborID)
TaskGet(k) ==
    /\ tasks[k].pc = "idle"
    /\ \E method \in KeyedMethods, id \in NeighborIDs :
         LET c == CacheOf(method)
             response == RoutesCacheGet(c, id, now)
             task == [NoTask EXCEPT !.method = method, !.id = id]
         IN IF response # Nil
            THEN /\ SetCacheOf(method, RoutesCacheHit(c, id, now))
                 /\ tasks' = [tasks EXCEPT ![k] =
                                TaskDone(task, Ptr(MarkFromCache(Deref(response))))]
            ELSE /\ SetCacheOf(method, c)
                 /\ tasks' = [tasks EXCEPT ![k] = [task EXCEPT !.pc = "fetch"]]
    /\ UNCHANGED <<adapter, cacheTTL, accessed, now, calls, neighborsCache,
                   neighborsSummaryCache, routesRequiredCache,
                   routesNotExportedCache, stream, last, held>>

\* the backend has answered: an error is returned, or the response is built,
\* stored with cache.Set(neighborID, response) and returned
TaskFetched(k) ==
    /\ tasks[k].pc = "fetch" /\ tasks[k].method \in KeyedMethods
    /\ \E out \in RIBOutcomes :
         LET task == tasks[k]
             r == FetchedBy(task.method, task.id, out, now, cacheTTL)
         IN IF r.err
            THEN /\ SetCacheOf(task.method, CacheOf(task.method))
                 /\ tasks' = [tasks EXCEPT ![k] = TaskFailed(task)]
            ELSE /\ SetCacheOf(task.method,
                               RoutesCacheSet(CacheOf(task.method), task.id,
                                              Deref(r.response)))
                 /\ tasks' = [tasks EXCEPT ![k] =
                                [TaskDone(task, r.response) EXCEPT
                                   !.fetched = {Fetch(task.method, task.id,
                                                      Deref(r.response))}]]
    /\ UNCHANGED <<adapter, cacheTTL, accessed, now, calls, neighborsCache,
                   neighborsSummaryCache, routesRequiredCache,
                   routesNotExportedCache, stream, last, held>>

\* Neighbors: response := src.neighborsCache.Get()
TaskNeighborsGet(k) ==
    /\ tasks[k].pc = "idle"
    /\ LET response == NeighborsCacheGet(neighborsCache, now)
           task == [NoTask EXCEPT !.method = "Neighbors"]
       IN IF response # Nil
          THEN /\ neighborsCache' = NeighborsCacheHit(neighborsCache)
               /\ tasks' = [tasks EXCEPT ![k] =
                              TaskDone(task, Ptr(MarkFromCache(Deref(response))))]
          ELSE /\ neighborsCache' = neighborsCache
               /\ tasks' = [tasks EXCEPT ![k] = [task EXCEPT !.pc = "fetch"]]
    /\ UNCHANGED <<adapter, cacheTTL, accessed, now, calls, neighborsSummaryCache,
                   routesCache, routesReceivedCache, routesFilteredCache,
                   routesRequiredCache, routesNotExportedCache, stream, last,
                   held>>

\* the backend has answered GET /neighbors: an error is returned, or the
\* loop over the decoded list begins
TaskNeighborsFetched(k) ==
    /\ tasks[k].pc = "fetch" /\ tasks[k].method = "Neighbors"
    /\ \E out \in NeighborsOutcomes :
         tasks' = [tasks EXCEPT ![k] =
                     IF out.status # "ok" THEN TaskFailed(@)
                     ELSE [@ EXCEPT !.pc = "loop", !.nb = out.body, !.i = 1]]
    /\ UNCHANGED <<adapter, cacheTTL, accessed, now, calls, caches, stream, last, held>>

\* n.RouteServerID = src.cfg.ID and n.RoutesFiltered = rejectCount on the
\* i-th neighbor of the task, and on to the next
Stamped(task, rejectedRes) ==
    [task EXCEPT !.pc = "loop", !.i = @ + 1,
                 !.nb[task.i] = [@ EXCEPT !.RouteServerID = cfgID,
                                          !.RoutesFiltered =
                                              Len(rejectedRes.Filtered.items)]]

\* src.RoutesFiltered(n.ID) within the loop: its Get
TaskLoopGet(k) ==
    /\ tasks[k].pc = "loop" /\ tasks[k].i <= Len(tasks[k].nb)
    /\ LET task == tasks[k]
           id == task.nb[task.i].ID
           response == RoutesCacheGet(routesFilteredCache, id, now)
       IN IF response # Nil
          THEN /\ routesFilteredCache' = RoutesCacheHit(routesFilteredCache, id, now)
               /\ tasks' = [tasks EXCEPT ![k] =
                              Stamped(task, MarkFromCache(Deref(response)))]
          ELSE /\ routesFilteredCache' = routesFilteredCache
               /\ tasks' = [tasks EXCEPT ![k] = [task EXCEPT !.pc = "loopfetch"]]
    /\ UNCHANGED <<adapter, cacheTTL, accessed, now, calls, neighborsCache,
                   neighborsSummaryCache, routesCache, routesReceivedCache,
                   routesRequiredCache, routesNotExportedCache, stream, last,
                   held>>

\* src.RoutesFiltered(n.ID) within the loop: the backend has answered
TaskLoopFetched(k) ==
    /\ tasks[k].pc = "loopfetch"
    /\ \E out \in RIBOutcomes :
         LET task == tasks[k]
             id == task.nb[task.i].ID
             r == FetchedBy("RoutesFiltered", id, out, now, cacheTTL)
         IN IF r.err
            THEN /\ routesFilteredCache' = routesFilteredCache
                 /\ tasks' = [tasks EXCEPT ![k] = TaskFailed(task)]
            ELSE /\ routesFilteredCache' =
                      RoutesCacheSet(routesFilteredCache, id, Deref(r.response))
                 /\ tasks' = [tasks EXCEPT ![k] =
                                [Stamped(task, Deref(r.response)) EXCEPT
                                   !.fetched = @ \cup {Fetch("RoutesFiltered", id,
                                                             Deref(r.response))}]]
    /\ UNCHANGED <<adapter, cacheTTL, accessed, now, calls, neighborsCache,
                   neighborsSummaryCache, routesCache, routesReceivedCache,
                   routesRequiredCache, routesNotExportedCache, stream, last,
                   held>>

\* Neighbors storing and returning its response before the loop is over
TaskNeighborsSetEarly(k) ==
    /\ tasks[k].pc = "loop"
    /\ LET task == tasks[k]
           fresh == [Meta |-> makeResponseMeta(now, cacheTTL), Neighbors |-> task.nb]
       IN /\ neighborsCache' = NeighborsCacheSet(neighborsCache, fresh)
          /\ tasks' = [tasks EXCEPT ![k] =
                         [TaskDone(task, Ptr(fresh)) EXCEPT
                            !.fetched = @ \cup {Fetch("Neighbors", "", fresh)}]]
    /\ UNCHANGED <<adapter, cacheTTL, accessed, now, calls, neighborsSummaryCache,
                   routesCache, routesReceivedCache, routesFilteredCache,
                   routesRequiredCache, routesNotExportedCache, stream, last,
                   held>>

\* the loop is over: the response is built, stored with
\* src.neighborsCache.Set(response) and returned
TaskNeighborsSet(k) ==
    /\ tasks[k].pc = "loop" /\ tasks[k].i > Len(tasks[k].nb)
    /\ LET task == tasks[k]
           fresh == [Meta |-> makeResponseMeta(now, cacheTTL), Neighbors |-> task.nb]
       IN /\ neighborsCache' = NeighborsCacheSet(neighborsCache, fresh)
          /\ tasks' = [tasks EXCEPT ![k] =
                         [TaskDone(task, Ptr(fresh)) EXCEPT
                            !.fetched = @ \cup {Fetch("Neighbors", "", fresh)}]]
    /\ UNCHANGED <<adapter, cacheTTL, accessed, now, calls, neighborsSummaryCache,
                   routesCache, routesReceivedCache, routesFilteredCache,
                   routesRequiredCache, routesNotExportedCache, stream, last,
                   held>>

\* ExpireCaches, whenever: one Expire() on routesReceivedCache
ExpireCachesRuns ==
    /\ routesReceivedCache' = BgplgdExpireCaches(routesReceivedCache, now).cache
    /\ UNCHANGED <<adapter, cacheTTL, accessed, now, calls, neighborsCache,
                   neighborsSummaryCache, routesCache, routesFilteredCache,
                   routesRequiredCache, routesNotExportedCache, stream, last,
                   held, tasks>>

InitConcurrent == Init /\ adapter = "openbgpd" /\ cacheTTL = CacheTTL

NextConcurrent ==
    \/ Tick
    \/ ExpireCachesRuns
    \/ \E k \in Tasks :
         \/ TaskGet(k)
         \/ TaskFetched(k)
         \/ TaskNeighborsGet(k)
         \/ TaskNeighborsFetched(k)
         \/ TaskLoopGet(k)
         \/ TaskLoopFetched(k)
         \/ TaskNeighborsSet(k)

SpecConcurrent == InitConcurrent /\ [][NextConcurrent]_vars

Unmarked(resp) == [resp EXCEPT !.Meta.ResultFromCache = FALSE]

\* A complete response of a task's call: one a fetch of that call could have
\* built, with or without the served-from-cache flag
CompleteResponse(task) ==
    LET resp == Unmarked(Deref(task.response))
    IN IF task.method \in KeyedMethods
       THEN \E b \in RIBs, t \in 0..now :
              resp = Deref(FetchedBy(task.method, task.id, OK(b), t, cacheTTL).response)
       ELSE /\ resp.Meta \in {makeResponseMeta(t, cacheTTL) : t \in 0..now}
            /\ \E list \in NeighborLists :
                 /\ Len(resp.Neighbors) = Len(list)
                 /\ \A i \in DOMAIN list :
                      /\ resp.Neighbors[i].ID = list[i].ID
                      /\ resp.Neighbors[i].RouteServerID = cfgID
                      /\ resp.Neighbors[i].RoutesFiltered
                           \in {Cardinality(RejectedIn(b)) : b \in RIBs}

\* A keyed cache is in order: no more keys than its size, each once in the
\* usage order, and the usage order lists exactly the keys that hold an entry
InOrder(c) ==
    /\ c.size = RoutesCacheSize
    /\ Len(c.lru) <= c.size
    /\ \A i, j \in DOMAIN c.lru : i # j => c.lru[i] # c.lru[j]
    /\ Range(c.lru) = {key \in NeighborIDs : c.responses[key] # Nil}

\* C20: under every interleaving of concurrent calls on one Source (Routes,
\* RoutesReceived, RoutesFiltered and Neighbors calls that miss the same key
\* together, ExpireCaches and the clock between their Get and their Set) the
\* caches are never corrupted: a caller that has returned holds a complete
\* response or an error, every entry of a cache is a complete response that a
\* fetch for that very key built (duplicate fetches leave one of theirs), and
\* each keyed cache is in order and within its configured size.
C20_ConcurrentCallsKeepCachesSound ==
    /\ \A k \in Tasks :
         tasks[k].pc = "done" =>
            \/ tasks[k].outcome = "error" /\ tasks[k].response = Nil
            \/ /\ tasks[k].outcome = "ok" /\ tasks[k].response # Nil
               /\ CompleteResponse(tasks[k])
    /\ InOrder(routesCache)
    /\ InOrder(routesReceivedCache)
    /\ InOrder(routesFilteredCache)
    /\ \A method \in KeyedMethods \cup {"Neighbors"}, id \in NeighborIDs :
         Stored(method, id) # Nil =>
            \E k \in Tasks :
               Fetch(method, IF method = "Neighbors" THEN "" ELSE id,
                     Unmarked(Deref(Stored(method, id)))) \in tasks[k].fetched
    /\ neighborsSummaryCache.response = Nil

\* Two callers have missed Routes of one neighbor together, fetched different
\* routes, and both returned; the cache holds the entry of the one that
\* stored last
C20_Witness ==
    /\ \A k \in {1, 2} :
         /\ tasks[k].pc = "done" /\ tasks[k].outcome = "ok"
         /\ tasks[k].method = "Routes" /\ tasks[k].id = "n1"
         /\ tasks[k].fetched # {}
    /\ tasks[1].response # tasks[2].response
    /\ routesCache.responses["n1"] = tasks[1].response
    /\ routesCache.lru = <<"n1">>

(***************************************************************************)
(* One keyed cache under load: RoutesReceived and ExpireCaches of the      *)
(* polling adapter run against a routesReceivedCache of KeyedCacheSize     *)
(* entries, with one neighbor more than the cache has room for, so that    *)
(* capacity eviction and expiry both happen.  accessed logs every Get hit  *)
(* and every Set of the cache in the order they happened.                  *)
(***************************************************************************)
MaxLookups == 4
KeyedCacheSize == 2

KeyNames == <<"n1", "n2", "n3", "n4", "n5">>
CacheKeys == {KeyNames[i] : i \in 1..(KeyedCacheSize + 1)}

\* The backend fails, or answers with a RIB of two routes
CacheAnswers == {HTTPError, OK(<<r1, r2>>)}

InitCache ==
    /\ adapter = "openbgpd"
    /\ cacheTTL = CacheTTL
    /\ now = 0
    /\ calls = 0
    /\ stream = Idle
    /\ last = NoCall
    /\ held = Nil
    /\ tasks = [k \in Tasks |-> NoTask]
    /\ accessed = <<>>
    /\ LET src == NewBgplgdSource(cacheTTL)
       IN /\ neighborsCache = src.neighborsCache
          /\ neighborsSummaryCache = src.neighborsSummaryCache
          /\ routesCache = src.routesCache
          /\ routesReceivedCache =
                NewRoutesCacheOf(CacheKeys, cacheTTL = 0, KeyedCacheSize)
          /\ routesFilteredCache = src.routesFilteredCache
          /\ routesRequiredCache = NoCache
          /\ routesNotExportedCache = NoCache

\* One use of the cache: a Get that hit, or the Set after a fetch
Access(key, r) ==
    [key |-> key, at |-> now, op |-> IF r.requests = <<>> THEN "Get" ELSE "Set"]

RoutesReceivedLookup ==
    /\ calls < MaxLookups
    /\ \E neighborID \in CacheKeys, out \in CacheAnswers :
         LET r == RoutesReceived(routesReceivedCache, neighborID, out, now, cacheTTL)
         IN /\ routesReceivedCache' = r.cache
            /\ last' = Result("RoutesReceived", neighborID, r,
                            Reply(ShowNeighborRIBRequest(neighborID), out))
            /\ accessed' = IF r.err THEN accessed
                           ELSE Append(accessed, Access(neighborID, r))
    /\ calls' = calls + 1
    /\ UNCHANGED <<adapter, cacheTTL, tasks, now, neighborsCache,
                   neighborsSummaryCache, routesCache, routesFilteredCache,
                   routesRequiredCache, routesNotExportedCache, stream>>
    /\ Handed

ExpireCachesSweep ==
    /\ calls < MaxLookups
    /\ LET e == BgplgdExpireCaches(routesReceivedCache, now)
       IN /\ routesReceivedCache' = e.cache
          /\ last' = [NoCall EXCEPT !.method = "ExpireCaches", !.outcome = "ok",
                                    !.count = e.count, !.at = now]
    /\ calls' = calls + 1
    /\ UNCHANGED <<adapter, cacheTTL, accessed, tasks, now, neighborsCache,
                   neighborsSummaryCache, routesCache, routesFilteredCache,
                   routesRequiredCache, routesNotExportedCache, stream>>
    /\ Handed

NextCache ==
    \/ Tick
    \/ RoutesReceivedLookup
    \/ ExpireCachesSweep

SpecCache == InitCache /\ [][NextCache]_vars

\* The keys a keyed cache holds an entry for
Entries(c) == {k \in DOMAIN c.responses : c.responses[k] # Nil}

\* When key was last used, as a position in the log of Get hits and Sets
LastUse(key) ==
    CHOOSE i \in DOMAIN accessed :
        /\ accessed[i].key = key
        /\ \A j \in DOMAIN accessed : accessed[j].key = key => j <= i

\* The held key whose last use lies furthest back
LeastRecentlyUsed ==
    CHOOSE k \in Entries(routesReceivedCache) :
        \A j \in Entries(routesReceivedCache) : LastUse(k) <= LastUse(j)

\* This step is a RoutesReceived that fetched and stored
Stores ==
    /\ calls' = calls + 1
    /\ last'.method = "RoutesReceived"
    /\ last'.outcome = "ok"
    /\ last'.requests # <<>>

\* The Set of this step is of a key the cache has no entry for, and the
\* cache is full
SetsNewKeyAtCapacity ==
    /\ Stores
    /\ last'.id \notin Entries(routesReceivedCache)
    /\ Cardinality(Entries(routesReceivedCache)) = routesReceivedCache.size

\* C21: a keyed cache configured for N entries never holds more than N; a
\* Set of a new key into the full cache evicts exactly the entry used least
\* recently, where a Get that hit and a Set both count as a use; the other
\* entries are the objects they were and Get returns them as it did before,
\* and Get returns the entry just stored; any other Set evicts nothing.
C21_KeyedCacheEvictsLeastRecentlyUsed ==
    [][/\ Cardinality(Entries(routesReceivedCache')) <= routesReceivedCache'.size
       /\ SetsNewKeyAtCapacity =>
            LET kept == Entries(routesReceivedCache) \ {LeastRecentlyUsed}
            IN /\ Entries(routesReceivedCache') = kept \cup {last'.id}
               /\ Cardinality(Entries(routesReceivedCache'))
                     = routesReceivedCache.size
               /\ \A k \in kept :
                    /\ routesReceivedCache'.responses[k]
                          = routesReceivedCache.responses[k]
                    /\ RoutesCacheGet(routesReceivedCache', k, now)
                          = RoutesCacheGet(routesReceivedCache, k, now)
               /\ RoutesCacheGet(routesReceivedCache', last'.id, now)
                     = last'.response
       /\ (Stores /\ ~SetsNewKeyAtCapacity) =>
            Entries(routesReceivedCache')
               = Entries(routesReceivedCache) \cup {last'.id}]_vars

\* The cache was filled, its oldest entry was read again, and the Set of a
\* further key has evicted the entry stored second, not the one stored
\* first; the entries left are both returned by Get
C21_Witness ==
    /\ Len(accessed) = KeyedCacheSize + 2
    /\ \A i \in 1..KeyedCacheSize : accessed[i].op = "Set"
    /\ accessed[KeyedCacheSize + 1] = [accessed[1] EXCEPT !.op = "Get"]
    /\ accessed[KeyedCacheSize + 2].op = "Set"
    /\ Cardinality({accessed[i].key : i \in DOMAIN accessed}) = KeyedCacheSize + 1
    /\ Entries(routesReceivedCache)
          = {accessed[i].key : i \in DOMAIN accessed} \ {accessed[2].key}
    /\ Cardinality(Entries(routesReceivedCache)) = KeyedCacheSize
    /\ \A k \in Entries(routesReceivedCache) :
         RoutesCacheGet(routesReceivedCache, k, now) # Nil

\* The latest Set of key in a log of Get hits and Sets
LastSetIn(log, key) ==
    CHOOSE i \in DOMAIN log :
        /\ log[i].key = key /\ log[i].op = "Set"
        /\ \A j \in DOMAIN log :
              (log[j].key = key /\ log[j].op = "Set") => j <= i

\* The entry a keyed cache holds under key
EntryOf(c, key) == Deref(c.responses[key])

RoutesReceivedReturns == calls' = calls + 1 /\ last'.method = "RoutesReceived"
ExpireCachesReturns == calls' = calls + 1 /\ last'.method = "ExpireCaches"

\* The call was answered from the cache with the entry stored at time t
ServedEntryOf(t) ==
    /\ last'.outcome = "ok"
    /\ last'.requests = <<>>
    /\ Deref(last'.response).Meta.CachedAt = t
    /\ Deref(last'.response).Meta.ResultFromCache

\* Every entry held was stored by the latest Set of its key, at time T say,
\* and expires at T + D, D the configured TTL
EntriesStampedAtSet ==
    \A k \in Entries(routesReceivedCache') :
        LET entry == EntryOf(routesReceivedCache', k)
        IN /\ entry.Meta.CachedAt = accessed'[LastSetIn(accessed', k)].at
           /\ entry.Meta.TTL = entry.Meta.CachedAt + cacheTTL

\* No call is answered with an entry at or after its T + D: the call asks
\* the backend again and, if that succeeds, stores and returns a fresh entry
NotServedOnceExpired ==
    RoutesReceivedReturns =>
        /\ (last'.outcome = "ok" /\ last'.requests = <<>>) =>
              now < Deref(last'.response).Meta.TTL
        /\ (/\ last'.id \in Entries(routesReceivedCache)
            /\ EntryOf(routesReceivedCache, last'.id).Meta.TTL <= now) =>
              /\ last'.requests = <<ShowNeighborRIBRequest(last'.id)>>
              /\ last'.outcome = "ok" =>
                    /\ routesReceivedCache'.responses[last'.id] = last'.response
                    /\ Deref(last'.response).Meta.CachedAt = now
                    /\ Deref(last'.response).Meta.TTL = now + cacheTTL
                    /\ ~Deref(last'.response).Meta.ResultFromCache

\* Expire removes the entries with T + D <= now, counts each of them once,
\* and leaves every other entry as it is
ExpireRemovesTheExpired ==
    ExpireCachesReturns =>
        LET gone == {k \in Entries(routesReceivedCache) :
                        EntryOf(routesReceivedCache, k).Meta.TTL <= now}
        IN /\ Entries(routesReceivedCache') = Entries(routesReceivedCache) \ gone
           /\ \A k \in Entries(routesReceivedCache') :
                routesReceivedCache'.responses[k] = routesReceivedCache.responses[k]
           /\ last'.count = Cardinality(gone)

\* C22 as stated: an entry stored at time T with TTL D is served by a cached
\* call at any time before T + D, whatever happened to the cache since, and
\* never at T + D or later, when the call fetches and stores anew; Expire
\* removes exactly the entries whose T + D has passed, counting each once.
C22_StoredEntryServedUntilTTL ==
    [][/\ RoutesReceivedReturns =>
            \A i \in DOMAIN accessed :
                (/\ accessed[i].op = "Set"
                 /\ accessed[i].key = last'.id
                 /\ now < accessed[i].at + cacheTTL) => ServedEntryOf(accessed[i].at)
       /\ EntriesStampedAtSet
       /\ NotServedOnceExpired
       /\ ExpireRemovesTheExpired]_vars

\* C22, amended: an entry stored at time T with TTL D is served by a cached
\* call at any time before T + D for as long as the cache holds it, and
\* never at T + D or later, when the call fetches and stores anew; Expire
\* removes exactly the entries whose T + D has passed, counting each once.
C22_HeldEntryServedUntilTTL ==
    [][/\ (/\ RoutesReceivedReturns
           /\ last'.id \in Entries(routesReceivedCache)
           /\ now < EntryOf(routesReceivedCache, last'.id).Meta.TTL) =>
              LET entry == EntryOf(routesReceivedCache, last'.id)
              IN /\ ServedEntryOf(entry.Meta.CachedAt)
                 /\ Deref(last'.response)
                       = [entry EXCEPT !.Meta.ResultFromCache = TRUE]
                 /\ last'.id \in Entries(routesReceivedCache')
       /\ EntriesStampedAtSet
       /\ NotServedOnceExpired
       /\ ExpireRemovesTheExpired]_vars

\* An entry stored at 0 was served before its TTL had passed, another was
\* stored later, and an Expire run once the first had expired has removed
\* the first, counted one, and left the second
C22_Witness ==
    /\ Len(accessed) = 3
    /\ accessed[1].op = "Set" /\ accessed[1].at = 0
    /\ accessed[2] = [accessed[1] EXCEPT !.op = "Get", !.at = CacheTTL - 1]
    /\ accessed[3].op = "Set" /\ accessed[3].key # accessed[1].key
    /\ accessed[3].at > 0
    /\ last.method = "ExpireCaches" /\ last.at = CacheTTL /\ last.count = 1
    /\ Entries(routesReceivedCache) = {accessed[3].key}

====
